---- MODULE Spec2Model ----
(***************************************************************************)
(* Verification model of the histogram-bucket experiments of               *)
(* node-triton-metrics (examples/buckets-experiments).                     *)
(*                                                                         *)
(* JavaScript Numbers are modelled as exact rationals <<n, d>> with d > 0  *)
(* in lowest terms, extended with the three IEEE specials the code can     *)
(* produce by dividing by zero: NaN = <<0,0>>, +Infinity = <<1,0>> and     *)
(* -Infinity = <<-1,0>>.  Binary rounding of the doubles is not modelled.  *)
(***************************************************************************)
EXTENDS Integers, Sequences, FiniteSets, TLC

(***************************************************************************)
(* Bounds of the model.                                                    *)
(***************************************************************************)
\* largest number of bucket boundaries given on the command line
MaxBuckets == 3
\* largest number of addDatum calls on one DataBox
MaxData == 3

(***************************************************************************)
(* JavaScript Number arithmetic.                                           *)
(***************************************************************************)
Abs(i) == IF i < 0 THEN 0 - i ELSE i

Sign(i) == IF i < 0 THEN 0 - 1 ELSE IF i > 0 THEN 1 ELSE 0

RECURSIVE Gcd(_, _)
Gcd(a, b) == IF b = 0 THEN a ELSE Gcd(b, a % b)

\* the Number n/d; a zero divisor gives NaN (0/0) or +-Infinity (x/0)
Num(n, d) ==
    IF d = 0 THEN <<Sign(n), 0>>
    ELSE LET g == Gcd(Abs(n), Abs(d))
         IN  <<(Sign(d) * n) \div g, Abs(d) \div g>>

Whole(i) == <<i, 1>>

NaN == <<0, 0>>

IsNaN(a) == a = NaN

IsFinite(a) == a[2] # 0

\* a + b
Add(a, b) ==
    IF IsNaN(a) \/ IsNaN(b) THEN NaN
    ELSE IF ~IsFinite(a) /\ ~IsFinite(b) THEN (IF a = b THEN a ELSE NaN)
    ELSE IF ~IsFinite(a) THEN a
    ELSE IF ~IsFinite(b) THEN b
    ELSE Num(a[1] * b[2] + b[1] * a[2], a[2] * b[2])

\* a - b
Sub(a, b) == Add(a, <<0 - b[1], b[2]>>)

\* a * b   (0 * Infinity is NaN)
Mul(a, b) == Num(a[1] * b[1], a[2] * b[2])

\* a / b   (0 / 0 is NaN, x / 0 is +-Infinity, x / Infinity is 0)
Div(a, b) ==
    IF IsNaN(a) \/ IsNaN(b) THEN NaN
    ELSE IF ~IsFinite(b) THEN (IF IsFinite(a) THEN Whole(0) ELSE NaN)
    ELSE IF b[1] = 0 THEN <<Sign(a[1]), 0>>
    ELSE Num(a[1] * b[2] * Sign(b[1]), a[2] * Abs(b[1]))

\* a < b   (every comparison with NaN is false)
Lt(a, b) ==
    /\ ~IsNaN(a)
    /\ ~IsNaN(b)
    /\ IF IsFinite(a) /\ IsFinite(b) THEN a[1] * b[2] < b[1] * a[2]
       ELSE IF IsFinite(a) THEN b[1] > 0
       ELSE IF IsFinite(b) THEN a[1] < 0
       ELSE a[1] < b[1]

\* a <= b
Le(a, b) == ~IsNaN(a) /\ ~IsNaN(b) /\ (a = b \/ Lt(a, b))

\* a >= b
Ge(a, b) == Le(b, a)

\* a > b
Gt(a, b) == Lt(b, a)

\* Math.floor of a finite Number, as an integer
Floor(a) == a[1] \div a[2]

\* Math.max(i, j) on integers (array indices)
MaxInt(i, j) == IF i > j THEN i ELSE j

(***************************************************************************)
(* Array.prototype.sort with the comparator (a, b) => a - b.               *)
(***************************************************************************)
RECURSIVE Insert(_, _)
Insert(s, x) ==
    IF s = <<>> THEN <<x>>
    ELSE IF Lt(x, Head(s)) THEN <<x>> \o s
    ELSE <<Head(s)>> \o Insert(Tail(s), x)

RECURSIVE SortNum(_)
SortNum(s) == IF s = <<>> THEN <<>> ELSE Insert(SortNum(SubSeq(s, 1, Len(s) - 1)), s[Len(s)])

(***************************************************************************)
(* State.                                                                  *)
(*   buckets, data, promData, sorted : the fields of the current DataBox   *)
(*   added : the values passed to addDatum since the DataBox was created   *)
(*           (history, not a field of the program)                         *)
(*   sorts : how many times data.sort ran on the DataBox (history)         *)
(*   ret   : the last DataBox method called, its argument and its result   *)
(*   samples, sampleEnd : the snapshots and the window end that            *)
(*           calculateRates is given                                       *)
(*   rates : what calculateRates returned (Undefined before the call)      *)
(*   sampleStart, values : the variables of that name of main() of         *)
(*           error-estimator-rate.js; lineCount is its variable count      *)
(*   used  : for every report of a rate-mode run, the snapshots it was     *)
(*           computed from and the snapshot evicted by the call (history)  *)
(*   input : the lines of stdin not yet read, each as Number(line); in     *)
(*           rate mode each as <<time in ms, Number(chunks[1])>>           *)
(*   read  : the lines of stdin already read (history)                     *)
(*   stdin : the text of every line of stdin of a chunk-mode run, each a   *)
(*           sequence of characters (history)                              *)
(*   chunkSize : CHUNK_SIZE                                                *)
(*   results : the results array of main()                                 *)
(*   summary : the rows outputResults prints (Undefined before)            *)
(*   pc    : "idle" (no run), "reading", "done" (summary printed) or       *)
(*           "failed" (an assertion threw and ended the process)           *)
(*   eventloop : an EventloopMetrics object, its pending timer and the     *)
(*           process.nextTick queue                                        *)
(*   manager : a MetricsManager object                                     *)
(*   request : the requests the metrics server is handling                 *)
(*   trace : what the callers of the library observed (history)            *)
(***************************************************************************)
VARIABLES buckets, data, promData, sorted, added, sorts, ret,
          samples, sampleEnd, rates, sampleStart, values, lineCount, used,
          input, read, stdin, chunkSize, results, summary, pc,
          eventloop, manager, request, trace

boxVars == <<buckets, data, promData, sorted, added, sorts, ret>>

rateVars == <<samples, sampleEnd, rates, sampleStart, values, lineCount, used>>

runVars == <<input, read, stdin, chunkSize, results, summary, pc>>

libVars == <<eventloop, manager, request, trace>>

vars == <<boxVars, rateVars, runVars, libVars>>

\* what a method without a return statement returns
Undefined == <<>>

\* numbers given as bucket boundaries on the command line
BucketNums == {Whole(0), Whole(1), Whole(2), Whole(4)}

\* values (in seconds) passed to addDatum
DataNums == {Whole(0 - 2), Num(1, 2), Whole(1), Whole(3)}

\* quantile levels passed to the quantile functions (0 and 1 are refused)
QInputs == {Whole(0), Num(1, 2), Num(999, 1000), Whole(1)}

\* sequences over S of length lo..hi
SeqsOf(S, lo, hi) == UNION {[1..n -> S] : n \in lo..hi}

\* the command-line arguments that parse as numbers (in the order given)
ArgLists == SeqsOf(BucketNums, 0, MaxBuckets)

\* the keys of promData that name a bucket: one per distinct boundary value
BucketKeys(bk) == {bk[i] : i \in 1..Len(bk)}

(***************************************************************************)
(* function DataBox(opts)                                                  *)
(***************************************************************************)
NewPromData(bk) == [le |-> [k \in BucketKeys(bk) |-> Whole(0)], Inf |-> Whole(0), sum |-> Whole(0)]

\* main(): the numeric arguments, sorted ascending, duplicates kept
SetupBuckets(args) == SortNum(args)

(***************************************************************************)
(* DataBox.prototype.addDatum                                              *)
(***************************************************************************)
\* the bucket loop: for (idx = 0; idx < buckets.length; idx++) (idx 0-based)
RECURSIVE AddDatumLoop(_, _, _, _)
AddDatumLoop(idx, bk, le, value) ==
    IF idx >= Len(bk) THEN le
    ELSE IF Le(value, bk[idx + 1])
         THEN AddDatumLoop(idx + 1, bk, [le EXCEPT ![bk[idx + 1]] = Add(@, Whole(1))], value)
         ELSE AddDatumLoop(idx + 1, bk, le, value)

\* mutant: '+Inf' treated like one more bucket, counted only when the value fits one
IncInfWhenBucketed(pd, bk, value) ==
    IF Len(bk) > 0 /\ Le(value, bk[Len(bk)]) THEN Add(pd.Inf, Whole(1)) ELSE pd.Inf

\* self.promData['+Inf']++
IncInf(pd, bk, value) == Add(pd.Inf, Whole(1))

addDatumPromData(pd, bk, value) ==
    [le  |-> AddDatumLoop(0, bk, pd.le, value),
     Inf |-> IncInf(pd, bk, value),
     sum |-> Add(pd.sum, value)]

\* mutant: addDatum forgets to clear the flag
MarkUnsortedForgotten == sorted

\* self.sorted = false
MarkUnsorted == FALSE

AddDatum(value) ==
    /\ Len(added) < MaxData
    /\ sorted' = MarkUnsorted
    /\ data' = Append(data, value)
    /\ promData' = addDatumPromData(promData, buckets, value)
    /\ added' = Append(added, value)
    /\ ret' = [op |-> "addDatum", q |-> Undefined, value |-> Undefined]
    /\ UNCHANGED <<buckets, sorts, rateVars, runVars, libVars>>

(***************************************************************************)
(* DataBox.prototype.getRealQuantile                                       *)
(***************************************************************************)
\* mutant: the index not moved down by one
RealQuantileOffByOne(q, sortedData) ==
    sortedData[Floor(Mul(q, Whole(Len(sortedData)))) + 1]

\* the element returned from the sorted array
RealQuantileOf(q, sortedData) ==
    LET idx == Floor(Mul(q, Whole(Len(sortedData))))
    IN  sortedData[MaxInt(0, idx - 1) + 1]

\* mutant: the array is read as it is, without the sort
BoxRealQuantileUnsorted(q, boxData, boxSorted) == RealQuantileOf(q, boxData)

\* what getRealQuantile(q) returns for a DataBox with these fields
BoxRealQuantile(q, boxData, boxSorted) ==
    RealQuantileOf(q, IF ~boxSorted THEN SortNum(boxData) ELSE boxData)

GetRealQuantile(q) ==
    /\ Len(data) > 0
    /\ Gt(q, Whole(0)) /\ Lt(q, Whole(1))
    /\ data' = IF ~sorted THEN SortNum(data) ELSE data
    /\ sorts' = IF ~sorted THEN sorts + 1 ELSE sorts
    /\ sorted' = TRUE
    /\ ret' = [op |-> "getRealQuantile", q |-> q, value |-> BoxRealQuantile(q, data, sorted)]
    /\ UNCHANGED <<buckets, promData, added, rateVars, runVars, libVars>>

(***************************************************************************)
(* getPrometheusQuantile                                                   *)
(***************************************************************************)
\* mutant: a strict comparison
RankReachedStrict(count, rank) == Gt(count, rank)

\* the loop condition that stops at the first bucket holding the rank
RankReached(count, rank) == Ge(count, rank)

\* for (idx = 0; (b < 0) && (idx < buckets.length); idx++)  (idx, b 0-based)
RECURSIVE FindBucket(_, _, _, _, _)
FindBucket(idx, b, bk, pd, rank) ==
    IF ~(b < 0 /\ idx < Len(bk)) THEN b
    ELSE IF RankReached(pd.le[bk[idx + 1]], rank)
         THEN FindBucket(idx + 1, idx, bk, pd, rank)
         ELSE FindBucket(idx + 1, b, bk, pd, rank)

\* bucketStart = 0; if (b > 0) bucketStart = buckets[b - 1]  (b 0-based)
BucketStart(b, bk) == IF b > 0 THEN bk[b] ELSE Whole(0)

\* count = promData[buckets[b]]; if (b > 0) count -= promData[buckets[b - 1]]
CountInBucket(b, bk, pd) ==
    IF b > 0 THEN Sub(pd.le[bk[b + 1]], pd.le[bk[b]]) ELSE pd.le[bk[b + 1]]

\* mutant: the rank is not made local to the bucket
LocalRankNotReduced(b, bk, pd, rank) == rank

\* if (b > 0) rank -= promData[buckets[b - 1]]
LocalRank(b, bk, pd, rank) == IF b > 0 THEN Sub(rank, pd.le[bk[b]]) ELSE rank

\* mutant: the upper bound of the bucket instead of the interpolated value
InterpolatedValueUpperBound(bucketStart, bucketEnd, rank, count) == bucketEnd

\* value = bucketStart + (bucketEnd-bucketStart)*(rank/count)
InterpolatedValue(bucketStart, bucketEnd, rank, count) ==
    Add(bucketStart, Mul(Sub(bucketEnd, bucketStart), Div(rank, count)))

\* the else branch: linear interpolation inside bucket b
Interpolate(b, bk, pd, rank) ==
    InterpolatedValue(BucketStart(b, bk), bk[b + 1],
                      LocalRank(b, bk, pd, rank), CountInBucket(b, bk, pd))

getPrometheusQuantile(q, bk, pd) ==
    LET rank == Mul(pd.Inf, q)
        b    == FindBucket(0, 0 - 1, bk, pd, rank)
    IN  IF b = 0 - 1 THEN bk[Len(bk)]
        ELSE IF b = 0 /\ Le(bk[1], Whole(0)) THEN bk[1]
        ELSE Interpolate(b, bk, pd, rank)

GetPrometheusQuantile(q) ==
    /\ Gt(q, Whole(0)) /\ Lt(q, Whole(1))
    /\ Len(buckets) >= 2
    /\ ret' = [op |-> "getPrometheusQuantile", q |-> q, value |-> getPrometheusQuantile(q, buckets, promData)]
    /\ UNCHANGED <<buckets, data, promData, sorted, added, sorts, rateVars, runVars, libVars>>

(***************************************************************************)
(* A DataBox created by main() and used through its methods.               *)
(***************************************************************************)
\* the fields of new DataBox({buckets: bk})
NewDataBox(bk) ==
    /\ buckets = bk
    /\ data = <<>>
    /\ promData = NewPromData(bk)
    /\ sorted = TRUE
    /\ added = <<>>
    /\ sorts = 0
    /\ ret = [op |-> "new", q |-> Undefined, value |-> Undefined]

\* the window of main() of error-estimator-rate.js is not part of the run
NoWindow == sampleStart = Undefined /\ values = <<>> /\ lineCount = 0 /\ used = <<>>

\* calculateRates is not part of the run
NoRates == samples = <<>> /\ sampleEnd = Whole(0) /\ rates = Undefined /\ NoWindow

\* main() is not part of the run
NoRun ==
    /\ input = <<>>
    /\ read = <<>>
    /\ stdin = <<>>
    /\ chunkSize = 0
    /\ results = <<>>
    /\ summary = Undefined
    /\ pc = "idle"

\* the library (lib/metrics-manager.js, lib/eventloop-metrics.js) is not loaded
NoLib ==
    /\ eventloop = Undefined
    /\ manager = Undefined
    /\ request = Undefined
    /\ trace = Undefined

InitBox ==
    /\ \E args \in ArgLists : NewDataBox(SetupBuckets(args))
    /\ NoRates
    /\ NoRun
    /\ NoLib

NextBox ==
    \/ \E value \in DataNums : AddDatum(value)
    \/ \E q \in QInputs : GetRealQuantile(q)
    \/ \E q \in QInputs : GetPrometheusQuantile(q)

SpecBox == InitBox /\ [][NextBox]_vars

(***************************************************************************)
(* getPrometheusQuantile applied to an arbitrary histogram (bucket counts  *)
(* need not come from addDatum: a rate vector is such a histogram).        *)
(***************************************************************************)
\* counts of an arbitrary histogram or rate vector
CountNums == {Whole(0), Whole(1), Whole(2), Num(5, 2)}

InitQuantile ==
    /\ \E args \in ArgLists : buckets = SetupBuckets(args)
    /\ data = <<>>
    /\ \E le \in [BucketKeys(buckets) -> CountNums], inf \in CountNums :
           promData = [le |-> le, Inf |-> inf, sum |-> Whole(0)]
    /\ sorted = TRUE
    /\ added = <<>>
    /\ sorts = 0
    /\ ret = [op |-> "new", q |-> Undefined, value |-> Undefined]
    /\ NoRates
    /\ NoRun
    /\ NoLib

NextQuantile == \E q \in QInputs : GetPrometheusQuantile(q)

SpecQuantile == InitQuantile /\ [][NextQuantile]_vars

(***************************************************************************)
(* calculateRates (rate mode).  Times are in milliseconds, as returned by  *)
(* Date.prototype.getTime.  A snapshot is a copy of promData with the      *)
(* fields time and values added.                                           *)
(***************************************************************************)
\* ms
SAMPLE_FREQ == 15000

\* ms
VECTOR_SELECTOR == 300000

\* largest number of snapshots handed to calculateRates
MaxSamples == 3

\* mutant: the window length left in milliseconds
WindowMilliseconds == Whole(VECTOR_SELECTOR)

\* (VECTOR_SELECTOR / 1000)
WindowSeconds == Div(Whole(VECTOR_SELECTOR), Whole(1000))

\* mutant: the count of the last snapshot, the first one not subtracted
CountIncreaseFromZero(first, last) == last

\* samples[samples.length - 1][bucket] - samples[0][bucket]
CountIncrease(first, last) == Sub(last, first)

\* what calculateRates returns for fewer than 2 snapshots: {}
EmptyObject == [le |-> <<>>]

HasInf(obj) == "Inf" \in DOMAIN obj

\* sampledInterval
SampledInterval(smp) == Sub(smp[Len(smp)].time, smp[1].time)

\* averageDurationBetweenSamples
AverageDuration(smp) == Div(SampledInterval(smp), Whole(Len(smp) - 1))

\* extrapolateToInterval after the two threshold tests
ExtrapolateToInterval(end, smp) ==
    LET rangeEnd        == end
        rangeStart      == Sub(end, Whole(VECTOR_SELECTOR))
        durationToStart == Sub(smp[1].time, rangeStart)
        durationToEnd   == Sub(rangeEnd, smp[Len(smp)].time)
        average         == AverageDuration(smp)
        extrapolationThreshold == Mul(average, Num(11, 10))
        afterStart == IF Lt(durationToStart, extrapolationThreshold)
                      THEN Add(SampledInterval(smp), durationToStart)
                      ELSE Add(SampledInterval(smp), Div(average, Whole(2)))
    IN  IF Lt(durationToEnd, extrapolationThreshold)
        THEN Add(afterStart, durationToEnd)
        ELSE Add(afterStart, Div(average, Whole(2)))

\* the three assignments to resultValue for one bucket
RateOf(first, last, end, smp) ==
    Div(Mul(CountIncrease(first, last),
            Div(ExtrapolateToInterval(end, smp), SampledInterval(smp))),
        WindowSeconds)

calculateRates(bk, end, smp) ==
    IF Len(smp) < 2 THEN EmptyObject
    ELSE [le  |-> [k \in BucketKeys(bk) |->
                      RateOf(smp[1].le[k], smp[Len(smp)].le[k], end, smp)],
          Inf |-> RateOf(smp[1].Inf, smp[Len(smp)].Inf, end, smp)]

CalculateRates ==
    /\ rates = Undefined
    /\ rates' = calculateRates(buckets, sampleEnd, samples)
    /\ UNCHANGED <<boxVars, samples, sampleEnd, sampleStart, values, lineCount, used, runVars,
                   libVars>>

(***************************************************************************)
(* calculateRates applied to a series of snapshots with non-decreasing     *)
(* timestamps.                                                             *)
(***************************************************************************)
\* timestamps of the snapshots (ms)
TimeNums == {15000, 30000, 45000, 300000}

\* window ends (ms)
EndNums == {300000, 315000}

\* (bucket count, '+Inf' count) of a snapshot with one boundary
CountPairs == {<<0, 0>>, <<0, 1>>, <<1, 1>>, <<1, 2>>, <<2, 2>>, <<0, 2>>}

\* the boundaries of the scenario of section 8 of the design
ScenarioBuckets == <<Num(1, 4), Num(1, 2), Whole(1), Num(5, 2)>>

Snapshot(le, inf, time) ==
    [le |-> le, Inf |-> Whole(inf), sum |-> Whole(0), time |-> Whole(time), values |-> <<>>]

NonDecreasing(ts) == \A i \in 1..(Len(ts) - 1) : ts[i] <= ts[i + 1]

\* one boundary, any counts, any non-decreasing timestamps
InitRatesAny ==
    /\ NewDataBox(<<Whole(1)>>)
    /\ \E n \in 1..MaxSamples :
         \E ts \in [1..n -> TimeNums], cs \in [1..n -> CountPairs] :
            /\ NonDecreasing(ts)
            /\ samples = [i \in 1..n |->
                             Snapshot([k \in {Whole(1)} |-> Whole(cs[i][1])], cs[i][2], ts[i])]
    /\ \E e \in EndNums : sampleEnd = Whole(e)
    /\ rates = Undefined
    /\ NoWindow
    /\ NoRun
    /\ NoLib

\* snapshots at 15 s and 30 s of the window [0 s, 300 s]; '+Inf' counts 7 and
\* 14, 0.25-bucket counts 1 and 2, the other counts in between
InitRatesScenario ==
    /\ NewDataBox(ScenarioBuckets)
    /\ \E a \in {1, 4}, b \in {4, 6}, c \in {6, 7} :
         samples =
           << Snapshot((Num(1, 4) :> Whole(1)) @@ (Num(1, 2) :> Whole(a)) @@
                       (Whole(1) :> Whole(b)) @@ (Num(5, 2) :> Whole(c)), 7, 15000),
              Snapshot((Num(1, 4) :> Whole(2)) @@ (Num(1, 2) :> Whole(2 * a)) @@
                       (Whole(1) :> Whole(2 * b)) @@ (Num(5, 2) :> Whole(2 * c)), 14, 30000) >>
    /\ sampleEnd = Whole(300000)
    /\ rates = Undefined
    /\ NoWindow
    /\ NoRun
    /\ NoLib

InitRates == InitRatesAny \/ InitRatesScenario

NextRates == CalculateRates

SpecRates == InitRates /\ [][NextRates]_vars

(***************************************************************************)
(* error-estimator.js: getResult, outputResults and main (count-chunked    *)
(* mode).                                                                  *)
(***************************************************************************)
\* the default of CHUNK_SIZE
CHUNK_SIZE_DEFAULT == 100000

\* var quantiles = [0.999, 0.99, 0.98, 0.95, 0.75, 0.50, 0.25]
quantiles ==
    << Num(999, 1000), Num(99, 100), Num(98, 100), Num(95, 100),
       Num(75, 100), Num(50, 100), Num(25, 100) >>

QuantileKeys == {quantiles[i] : i \in 1..Len(quantiles)}

\* Math.max / Math.min (NaN when an argument is NaN)
MathMax(a, b) == IF IsNaN(a) \/ IsNaN(b) THEN NaN ELSE IF Lt(a, b) THEN b ELSE a

MathMin(a, b) == IF IsNaN(a) \/ IsNaN(b) THEN NaN ELSE IF Lt(b, a) THEN b ELSE a

\* Math.abs
MathAbs(a) == <<Abs(a[1]), a[2]>>

RECURSIVE Pow10(_)
Pow10(f) == IF f = 0 THEN 1 ELSE 10 * Pow10(f - 1)

\* +(x.toFixed(f)): x rounded to f decimals.  An exact decimal tie is rounded
\* away from zero; the double nearest to such a tie may print either way.
ToFixed(x, f) ==
    IF ~IsFinite(x) THEN x
    ELSE LET scaled == Mul(MathAbs(x), Whole(Pow10(f)))
             n      == Floor(Add(scaled, Num(1, 2)))
         IN  Num(Sign(x[1]) * n, Pow10(f))

\* the error expression of getResult
ErrorPercent(prometheus, actual) ==
    ToFixed(Mul(MathAbs(Sub(Whole(1),
                            Div(MathMax(prometheus, actual), MathMin(prometheus, actual)))),
                Whole(100)), 2)

\* result.quantiles[q] of getResult for a DataBox with these fields
QuantileReport(q, bk, boxData, boxSorted, pd) ==
    LET actual     == BoxRealQuantile(q, boxData, boxSorted)
        prometheus == getPrometheusQuantile(q, bk, pd)
    IN  [actual |-> actual, error |-> ErrorPercent(prometheus, actual), prometheus |-> prometheus]

\* getResult(databox); it throws when an assertion of the quantile functions fails
GetResultThrows(bk, boxData) == Len(boxData) = 0 \/ Len(bk) < 2

getResult(bk, boxData, boxSorted, pd) ==
    [count     |-> Len(boxData),
     quantiles |-> [q \in QuantileKeys |-> QuantileReport(q, bk, boxData, boxSorted, pd)]]

\* the qdata entry of one quantile after the loop over results[1..n]
RECURSIVE QData(_, _, _)
QData(res, q, n) ==
    LET r == res[n].quantiles[q]
    IN  IF n = 1
        THEN [max_e |-> r.error, min_e |-> r.error, sum_e |-> r.error,
              max_a |-> r.actual, min_a |-> r.actual, sum_a |-> r.actual,
              max_p |-> r.prometheus, min_p |-> r.prometheus, sum_p |-> r.prometheus]
        ELSE LET d == QData(res, q, n - 1)
             IN  [max_e |-> IF Gt(r.error, d.max_e) THEN r.error ELSE d.max_e,
                  min_e |-> IF Lt(r.error, d.min_e) THEN r.error ELSE d.min_e,
                  sum_e |-> Add(d.sum_e, r.error),
                  max_a |-> IF Gt(r.actual, d.max_a) THEN r.actual ELSE d.max_a,
                  min_a |-> IF Lt(r.actual, d.min_a) THEN r.actual ELSE d.min_a,
                  sum_a |-> Add(d.sum_a, r.actual),
                  max_p |-> IF Gt(r.prometheus, d.max_p) THEN r.prometheus ELSE d.max_p,
                  min_p |-> IF Lt(r.prometheus, d.min_p) THEN r.prometheus ELSE d.min_p,
                  sum_p |-> Add(d.sum_p, r.prometheus)]

\* the rows of the summary table (outputItems), one per quantile
outputResults(res) ==
    [q \in QuantileKeys |->
        LET d == QData(res, q, Len(res))
            n == Whole(Len(res))
        IN  [min_e |-> d.min_e, max_e |-> d.max_e, avg_e |-> ToFixed(Div(d.sum_e, n), 2),
             min_a |-> d.min_a, max_a |-> d.max_a, avg_a |-> ToFixed(Div(d.sum_a, n), 2),
             min_p |-> ToFixed(d.min_p, 3), max_p |-> ToFixed(d.max_p, 3),
             avg_p |-> ToFixed(Div(d.sum_p, n), 2)]]

\* mutant: the histogram of the previous chunk is carried into the new DataBox
NextDataBoxKeepsHistogram ==
    /\ data' = <<>>
    /\ promData' = promData
    /\ sorted' = TRUE
    /\ added' = <<>>
    /\ sorts' = 0
    /\ ret' = [op |-> "new", q |-> Undefined, value |-> Undefined]

\* currentDataBox = new DataBox({buckets: buckets})
NextDataBox ==
    /\ data' = <<>>
    /\ promData' = NewPromData(buckets)
    /\ sorted' = TRUE
    /\ added' = <<>>
    /\ sorts' = 0
    /\ ret' = [op |-> "new", q |-> Undefined, value |-> Undefined]

\* rl.on('line', _processLine)
ProcessLine ==
    /\ pc = "reading"
    /\ input # <<>>
    /\ input' = Tail(input)
    /\ read' = Append(read, Head(input))
    /\ LET val     == Div(Head(input), Whole(1000))
           boxData == Append(data, val)
           pd      == addDatumPromData(promData, buckets, val)
       IN  IF IsNaN(val)
           THEN \* assert.number(val) throws (assert-plus refuses NaN)
                /\ pc' = "failed"
                /\ UNCHANGED <<data, promData, sorted, added, sorts, ret, results>>
           ELSE IF Len(boxData) >= chunkSize
           THEN \* Box is full: processBox()
                IF GetResultThrows(buckets, boxData)
                THEN /\ pc' = "failed"
                     /\ data' = boxData
                     /\ promData' = pd
                     /\ sorted' = MarkUnsorted
                     /\ added' = Append(added, val)
                     /\ ret' = [op |-> "addDatum", q |-> Undefined, value |-> Undefined]
                     /\ UNCHANGED <<sorts, results>>
                ELSE /\ results' = Append(results, getResult(buckets, boxData, MarkUnsorted, pd))
                     /\ NextDataBox
                     /\ UNCHANGED pc
           ELSE /\ data' = boxData
                /\ promData' = pd
                /\ sorted' = MarkUnsorted
                /\ added' = Append(added, val)
                /\ ret' = [op |-> "addDatum", q |-> Undefined, value |-> Undefined]
                /\ UNCHANGED <<sorts, results, pc>>
    /\ UNCHANGED <<buckets, stdin, chunkSize, summary, rateVars, libVars>>

\* rl.on('close', finalProcessing)
FinalProcessing ==
    /\ pc = "reading"
    /\ input = <<>>
    /\ IF GetResultThrows(buckets, data)
       THEN /\ pc' = "failed"
            /\ UNCHANGED <<data, promData, sorted, added, sorts, ret, results, summary>>
       ELSE /\ results' = Append(results, getResult(buckets, data, sorted, promData))
            /\ NextDataBox
            /\ summary' = outputResults(results')
            /\ pc' = "done"
    /\ UNCHANGED <<buckets, input, read, stdin, chunkSize, rateVars, libVars>>

\* largest number of input lines
MaxLines == 3

\* the numeric arguments of the runs
ChunkArgLists ==
    { <<>>, <<Whole(1)>>, <<Whole(1), Whole(2)>>, <<Whole(2), Whole(1), Whole(1)>>,
      <<Whole(0), Whole(4), Whole(1)>> }

\* the characters of the input lines: decimal digits, a blank and a letter
Digits == <<"0", "1", "2", "3", "4", "5", "6", "7", "8", "9">>

DigitValue(c) == (CHOOSE i \in 1..10 : Digits[i] = c) - 1

IsDigit(c) == \E i \in 1..10 : Digits[i] = c

\* StringToNumber strips the white space at both ends of the text
RECURSIVE TrimStart(_)
TrimStart(text) ==
    IF text # <<>> /\ Head(text) = " " THEN TrimStart(Tail(text)) ELSE text

RECURSIVE TrimEnd(_)
TrimEnd(text) ==
    IF text # <<>> /\ text[Len(text)] = " "
    THEN TrimEnd(SubSeq(text, 1, Len(text) - 1)) ELSE text

\* the value of a string of decimal digits
RECURSIVE DecimalValue(_)
DecimalValue(ds) ==
    IF ds = <<>> THEN 0
    ELSE 10 * DecimalValue(SubSeq(ds, 1, Len(ds) - 1)) + DigitValue(ds[Len(ds)])

\* Number applied to a trimmed text: the empty string is 0, a string of
\* digits is its value and any other text among those modelled is NaN
NumberOfTrimmed(ds) ==
    IF ds = <<>> THEN Whole(0)
    ELSE IF \A i \in 1..Len(ds) : IsDigit(ds[i]) THEN Whole(DecimalValue(ds))
    ELSE NaN

\* Number(line)
Number(line) == NumberOfTrimmed(TrimEnd(TrimStart(line)))

\* the lines of stdin: "0", "500", "1000", "3000", a word and an empty line
LineTexts ==
    { <<"0">>, <<"5", "0", "0">>, <<"1", "0", "0", "0">>, <<"3", "0", "0", "0">>,
      <<"a", "b", "c">>, <<>> }

\* Number(line) of the input lines (ms); NaN for a line that is not a number
LineNums == {Number(line) : line \in LineTexts}

\* the values CHUNK_SIZE takes (CHUNK_SIZE=0 in the environment gives 0)
ChunkSizes == {0, 1, 2, CHUNK_SIZE_DEFAULT}

\* the run of the README: schemes/artedi_v2_default.json and input.txt
ReadmeBuckets ==
    << Num(5, 1000), Num(1, 100), Num(25, 1000), Num(5, 100), Num(1, 10), Num(25, 100),
       Num(5, 10), Whole(1), Num(25, 10), Whole(5), Whole(10) >>

ReadmeText ==
    << <<"3", "3", "6">>, <<"4", "2">>, <<"7", "3">>, <<"6", "7">>, <<"1", "3", "0">>,
       <<"1", "5", "7">>, <<"1", "7", "4">>, <<"1", "5", "3">>, <<"1", "3", "8">> >>

ReadmeInput == [i \in 1..Len(ReadmeText) |-> Number(ReadmeText[i])]

InitChunk ==
    /\ \/ /\ \E args \in ChunkArgLists : NewDataBox(SetupBuckets(args))
          /\ stdin \in SeqsOf(LineTexts, 0, MaxLines)
          /\ input = [i \in 1..Len(stdin) |-> Number(stdin[i])]
          /\ chunkSize \in ChunkSizes
       \/ /\ NewDataBox(SetupBuckets(ReadmeBuckets))
          /\ stdin = ReadmeText
          /\ input = ReadmeInput
          /\ chunkSize = CHUNK_SIZE_DEFAULT
    /\ read = <<>>
    /\ results = <<>>
    /\ summary = Undefined
    /\ pc = "reading"
    /\ NoRates
    /\ NoLib

NextChunk == ProcessLine \/ FinalProcessing

SpecChunk == InitChunk /\ [][NextChunk]_vars

(***************************************************************************)
(* error-estimator-rate.js: getRealQuantile, extractValues,                *)
(* calculateResult and main (rate mode).                                   *)
(***************************************************************************)
\* (300000 / SAMPLE_FREQ): the number of snapshots the window keeps
WindowCapacity == 300000 \div SAMPLE_FREQ

\* extractValues(samples)
RECURSIVE extractValues(_)
extractValues(smp) ==
    IF smp = <<>> THEN <<>>
    ELSE extractValues(SubSeq(smp, 1, Len(smp) - 1)) \o smp[Len(smp)].values

\* getRealQuantile(q, data): isSorted is not passed, data is sorted on every call
getRealQuantile(q, rawValues) == RealQuantileOf(q, SortNum(rawValues))

\* result.quantiles[q] of calculateResult
RateQuantileReport(q, bk, rawValues, rt) ==
    LET actual     == getRealQuantile(q, rawValues)
        prometheus == getPrometheusQuantile(q, bk, rt)
    IN  [actual |-> actual, error |-> ErrorPercent(prometheus, actual), prometheus |-> prometheus]

\* calculateResult throws when an assertion of the quantile functions fails
CalculateResultThrows(bk, smp) == Len(extractValues(smp)) = 0 \/ Len(bk) < 2

calculateResult(bk, smp, rt) ==
    [quantiles |-> [q \in QuantileKeys |-> RateQuantileReport(q, bk, extractValues(smp), rt)]]

\* processSample(): results and used after the call, failed when it threw.
\* evicted is the time of the snapshot shifted out just before the call
\* (Undefined when none was).
processSample(bk, end, smp, res, usd, evicted) ==
    LET rt == calculateRates(bk, end, smp)
    IN  IF end = Undefined
        THEN \* assert.number(opts.sampleEnd) of calculateRates
             [results |-> res, used |-> usd, failed |-> TRUE]
        ELSE IF ~HasInf(rt)
        THEN [results |-> res, used |-> usd, failed |-> FALSE]
        ELSE IF CalculateResultThrows(bk, smp)
        THEN [results |-> res, used |-> usd, failed |-> TRUE]
        ELSE [results |-> Append(res, calculateResult(bk, smp, rt)),
              used    |-> Append(usd, [samples |-> smp, sampleEnd |-> end, evicted |-> evicted]),
              failed  |-> FALSE]

\* mutant: the oldest snapshot is never removed
WindowNeverShifted(pushed) == pushed

\* if (samples.length > (300000 / SAMPLE_FREQ)) samples.shift()
WindowAfterPush(pushed) == IF Len(pushed) > WindowCapacity THEN Tail(pushed) ELSE pushed

\* mutant: the values of the interval are not handed over to a new array
ValuesKept(vals) == vals

\* values = []
ValuesAfterSnapshot(vals) == <<>>

\* sample = dataBox.getPromData(); sample.time = sampleEnd; sample.values = values
TakeSample(pd, end, vals) ==
    [le |-> pd.le, Inf |-> pd.Inf, sum |-> pd.sum, time |-> end, values |-> vals]

\* the window after one pass of the loop body; after is what processSample
\* left (results, used, failed), or the values before when it was not called
WindowAfterPass(w, kept, after) ==
    [samples     |-> kept,
     values      |-> ValuesAfterSnapshot(w.values),
     sampleStart |-> IF after.failed THEN w.sampleStart
                     ELSE Add(w.sampleStart, Whole(SAMPLE_FREQ)),
     sampleEnd   |-> IF after.failed THEN w.sampleEnd
                     ELSE Add(w.sampleEnd, Whole(SAMPLE_FREQ)),
     results     |-> after.results,
     used        |-> after.used,
     failed      |-> after.failed]

\* the body of while (time > sampleEnd) { ... } on the window w
LoopBody(bk, pd, w) ==
    LET pushed == Append(w.samples, TakeSample(pd, w.sampleEnd, w.values))
    IN  CHOOSE next \in
            { WindowAfterPass(w, WindowAfterPush(pushed), after) :
                after \in { IF Len(pushed) > WindowCapacity
                            THEN processSample(bk, w.sampleEnd, WindowAfterPush(pushed),
                                               w.results, w.used, pushed[1].time)
                            ELSE [results |-> w.results, used |-> w.used, failed |-> FALSE] } } :
            TRUE

\* while (time > sampleEnd) { ... }, left early when processSample throws
RECURSIVE SampleLoop(_, _, _, _)
SampleLoop(time, bk, pd, window) ==
    CHOOSE last \in
        { IF w.failed \/ ~Gt(time, w.sampleEnd) THEN w
          ELSE SampleLoop(time, bk, pd, LoopBody(bk, pd, w)) : w \in {window} } :
        TRUE

\* rl.on('line', _processLine) of error-estimator-rate.js
RateProcessLine ==
    /\ pc = "reading"
    /\ input # <<>>
    /\ input' = Tail(input)
    /\ read' = Append(read, Head(input))
    /\ LET time == Head(input)[1]
           val  == Div(Head(input)[2], Whole(1000))
           w0   == [samples     |-> samples,
                    values      |-> values,
                    sampleStart |-> IF sampleStart = Undefined THEN time ELSE sampleStart,
                    sampleEnd   |-> IF sampleStart = Undefined
                                    THEN Add(time, Whole(SAMPLE_FREQ)) ELSE sampleEnd,
                    results     |-> results,
                    used        |-> used,
                    failed      |-> FALSE]
       IN  IF IsNaN(time) \/ IsNaN(val)
           THEN \* assert.number(time) or assert.number(val) throws
                /\ pc' = "failed"
                /\ UNCHANGED <<boxVars, samples, sampleEnd, sampleStart, values, lineCount,
                               used, results>>
           ELSE \E w \in {SampleLoop(time, buckets, promData, w0)} :
                /\ lineCount' = lineCount + 1
                /\ samples' = w.samples
                /\ sampleStart' = w.sampleStart
                /\ sampleEnd' = w.sampleEnd
                /\ results' = w.results
                /\ used' = w.used
                /\ IF w.failed
                   THEN /\ pc' = "failed"
                        /\ values' = w.values
                        /\ UNCHANGED boxVars
                   ELSE /\ values' = Append(w.values, val)
                        /\ sorted' = MarkUnsorted
                        /\ data' = Append(data, val)
                        /\ promData' = addDatumPromData(promData, buckets, val)
                        /\ added' = Append(added, val)
                        /\ ret' = [op |-> "addDatum", q |-> Undefined, value |-> Undefined]
                        /\ UNCHANGED <<buckets, sorts, pc>>
    /\ UNCHANGED <<rates, stdin, chunkSize, summary, libVars>>

\* outputResults(buckets, count, results) throws on an empty results array:
\* quantiles is still undefined when quantiles.length is read
OutputResultsThrows(res) == Len(res) = 0

\* rl.on('close', finalProcessing) of error-estimator-rate.js
RateFinalProcessing ==
    /\ pc = "reading"
    /\ input = <<>>
    /\ \E after \in {processSample(buckets, sampleEnd, samples, results, used, Undefined)} :
           /\ results' = after.results
           /\ used' = after.used
           /\ IF after.failed \/ OutputResultsThrows(after.results)
              THEN pc' = "failed" /\ UNCHANGED summary
              ELSE pc' = "done" /\ summary' = outputResults(after.results)
    /\ UNCHANGED <<boxVars, samples, sampleEnd, rates, sampleStart, values, lineCount,
                   input, read, stdin, chunkSize, libVars>>

\* largest number of input lines of a rate-mode run
MaxRateLines == 3

\* the numeric arguments of the rate-mode runs
RateArgLists ==
    { <<>>, <<Whole(1)>>, <<Whole(1), Whole(2)>>, <<Whole(2), Whole(1), Whole(1)>> }

\* new Date(chunks[0]).getTime() of the input lines (ms)
RateTimes == {0, 15000, 15001, 300001, 315001}

\* Number(chunks[1]) of the input lines (ms)
RateVals == {Whole(500), Whole(3000)}

\* the input lines; the last one has a timestamp that is not a date
RateLines == {<<Whole(t), v>> : t \in RateTimes, v \in RateVals} \cup {<<NaN, Whole(500)>>}

\* "Input should be sorted by time"
SortedByTime(ls) ==
    \A i, j \in 1..Len(ls) :
        (i < j /\ ~IsNaN(ls[i][1]) /\ ~IsNaN(ls[j][1])) => Le(ls[i][1], ls[j][1])

\* main() up to rl.on(...); new DataBox throws on an empty bucket list
InitWindow ==
    /\ \E args \in RateArgLists : NewDataBox(SetupBuckets(args))
    /\ samples = <<>>
    /\ sampleEnd = Undefined
    /\ rates = Undefined
    /\ NoWindow
    /\ input \in {ls \in SeqsOf(RateLines, 0, MaxRateLines) : SortedByTime(ls)}
    /\ read = <<>>
    /\ stdin = <<>>
    /\ chunkSize = 0
    /\ results = <<>>
    /\ summary = Undefined
    /\ pc = IF Len(buckets) > 0 THEN "reading" ELSE "failed"
    /\ NoLib

NextWindow == RateProcessLine \/ RateFinalProcessing

SpecWindow == InitWindow /\ [][NextWindow]_vars

(***************************************************************************)
(* lib/eventloop-metrics.js: EventloopMetrics.  Times are in nanoseconds.  *)
(* The eventloop record holds the fields of the object, the timer object   *)
(* that is pending ("none", "timeout" for setTimeout, "immediate" for      *)
(* setImmediate, with the sample it carries) and nextTick, the number of   *)
(* callbacks queued with process.nextTick; timers and immediates run only  *)
(* when that queue is empty.                                               *)
(***************************************************************************)
\* Number.MAX_SAFE_INTEGER (2^53 - 1), cut to the largest integer TLC holds;
\* it is only ever compared with samples
MAX_SAFE_INTEGER == 2147483647

\* Number.MIN_SAFE_INTEGER
MIN_SAFE_INTEGER == 0 - MAX_SAFE_INTEGER

NS_PER_SECOND == 1000000000

\* largest number of samples collected
MaxCollected == 2

\* largest number of calls of get()
MaxGets == 3

\* Math.min on integers
MinInt2(i, j) == IF i < j THEN i ELSE j

\* EventloopMetrics.prototype.reset
reset(em) ==
    [em EXCEPT !.minLoopCount = MAX_SAFE_INTEGER,
               !.maxLoopCount = MIN_SAFE_INTEGER,
               !.maxLag = MIN_SAFE_INTEGER,
               !.maxTime = MIN_SAFE_INTEGER,
               !.minLag = MAX_SAFE_INTEGER,
               !.minTime = MAX_SAFE_INTEGER,
               !.sampleCount = 0,
               !.sumLag = 0,
               !.sumLoopCount = 0,
               !.sumTime = 0]

\* new EventloopMetrics(opts): handlerFn and timeout are not assigned
NewEventloopMetrics ==
    reset([minLoopCount |-> 0, maxLoopCount |-> 0, maxLag |-> 0, maxTime |-> 0,
           minLag |-> 0, minTime |-> 0, sampleCount |-> 0, sumLag |-> 0,
           sumLoopCount |-> 0, sumTime |-> 0,
           stopAsap |-> FALSE, handlerFn |-> "undefined", timeout |-> Undefined,
           timer |-> "none", sample |-> Undefined, nextTick |-> 0])

\* what eventLoopStats.sense() and the timer report for one sample
EventloopSamples ==
    { [loopCount |-> 0, loopTimeMax |-> 0, loopTimeMin |-> 0, loopTimeSum |-> 0,
       lag |-> 0 - 1000000],
      [loopCount |-> 3, loopTimeMax |-> 2000000, loopTimeMin |-> 1000000,
       loopTimeSum |-> 4000000, lag |-> 250000000] }

\* the handler functions of the callers: none ("undefined"), one that only
\* reads the sample ("log") and one that calls get() on the object ("poll")
HandlerFns == {"undefined", "log", "poll"}

\* get(): the fields after the two tests on sampleCount and sumLoopCount
ZeroedWhenEmpty(em) ==
    LET lagged == IF em.sampleCount = 0
                  THEN [em EXCEPT !.maxLag = 0, !.minLag = 0, !.sumLag = 0]
                  ELSE em
    IN  IF lagged.sumLoopCount = 0
        THEN [lagged EXCEPT !.maxLoopCount = 0, !.minLoopCount = 0, !.sumLoopCount = 0,
                            !.maxTime = 0, !.minTime = 0, !.sumTime = 0]
        ELSE lagged

\* the object get() returns
GetResult(em) ==
    LET z == ZeroedWhenEmpty(em)
    IN  [sampleCount |-> z.sampleCount,
         lagMax |-> z.maxLag, lagMin |-> z.minLag, lagSum |-> z.sumLag,
         loopCountMax |-> z.maxLoopCount, loopCountMin |-> z.minLoopCount,
         loopCountSum |-> z.sumLoopCount,
         loopTimeMax |-> z.maxTime, loopTimeMin |-> z.minTime, loopTimeSum |-> z.sumTime]

\* the object after get(): process.nextTick(self.reset.bind(self)) queues the
\* reset, the aggregates stay as they are until it runs
AfterGet(em) == [ZeroedWhenEmpty(em) EXCEPT !.nextTick = @ + 1]

\* what the callers saw after one more call of get() on em
TraceAfterGet(tr, em) ==
    [tr EXCEPT !.gets = @ + 1,
               !.returned = @ + GetResult(em).sampleCount,
               !.collectedAtLastGet = tr.collected]

\* the aggregates after one more sample
WithSample(em, s) ==
    [em EXCEPT !.sampleCount = @ + 1,
               !.maxLag = MaxInt(@, s.lag),
               !.minLag = MinInt2(@, s.lag),
               !.sumLag = @ + s.lag,
               !.maxLoopCount = MaxInt(@, s.loopCount),
               !.minLoopCount = MinInt2(@, s.loopCount),
               !.sumLoopCount = @ + s.loopCount,
               !.maxTime = MaxInt(@, s.loopTimeMax),
               !.minTime = MinInt2(@, s.loopTimeMin),
               !.sumTime = @ + s.loopTimeSum]

\* updateEventloopData(): a new setTimeout unless stopAsap is set
UpdateEventloopData(em) ==
    IF em.stopAsap THEN [em EXCEPT !.timer = "none", !.sample = Undefined]
    ELSE [em EXCEPT !.timer = "timeout", !.sample = Undefined]

\* EventloopMetrics.prototype.setHandler
SetHandler(handlerFn) ==
    /\ trace.started
    /\ eventloop' = [eventloop EXCEPT !.handlerFn = handlerFn]
    /\ UNCHANGED <<boxVars, rateVars, runVars, manager, request, trace>>

\* EventloopMetrics.prototype.start (called once)
Start(handlerFn) ==
    /\ ~trace.started
    /\ eventloop' = UpdateEventloopData([eventloop EXCEPT !.handlerFn = handlerFn])
    /\ trace' = [trace EXCEPT !.started = TRUE]
    /\ UNCHANGED <<boxVars, rateVars, runVars, manager, request>>

\* the setTimeout callback _measureEventloopLag: takes the sample and hands it
\* to setImmediate
MeasureEventloopLag(s) ==
    /\ eventloop.timer = "timeout"
    /\ eventloop.nextTick = 0
    /\ trace.collected < MaxCollected
    /\ eventloop' = [eventloop EXCEPT !.timer = "immediate", !.sample = s]
    /\ UNCHANGED <<boxVars, rateVars, runVars, manager, request, trace>>

\* the setImmediate callback _measureEventloopTime: the handler first, then
\* the aggregates, then updateEventloopData()
MeasureEventloopTime ==
    /\ eventloop.timer = "immediate"
    /\ eventloop.nextTick = 0
    /\ eventloop.handlerFn = "poll" => trace.gets < MaxGets
    /\ LET called == eventloop.handlerFn # "undefined"
           polled == eventloop.handlerFn = "poll"
           handled == IF polled THEN AfterGet(eventloop) ELSE eventloop
           seen == IF polled THEN TraceAfterGet(trace, eventloop) ELSE trace
       IN  /\ eventloop' = UpdateEventloopData(WithSample(handled, eventloop.sample))
           /\ trace' = [seen EXCEPT !.collected = @ + 1,
                                    !.handlerCalls = IF called THEN @ + 1 ELSE @]
    /\ UNCHANGED <<boxVars, rateVars, runVars, manager, request>>

\* EventloopMetrics.prototype.get, called by a user of the object
Get ==
    /\ trace.started
    /\ trace.gets < MaxGets
    /\ eventloop' = AfterGet(eventloop)
    /\ trace' = TraceAfterGet(trace, eventloop)
    /\ UNCHANGED <<boxVars, rateVars, runVars, manager, request>>

\* the callback queued by get() with process.nextTick: reset()
Reset ==
    /\ eventloop.nextTick > 0
    /\ eventloop' = [reset(eventloop) EXCEPT !.nextTick = @ - 1]
    /\ UNCHANGED <<boxVars, rateVars, runVars, manager, request, trace>>

\* clearTimeout(self.timeout): the timer was stored in self.timer, and
\* self.timeout is undefined, so no timer is cleared
ClearTimeout(em) == IF em.timeout = Undefined THEN em ELSE [em EXCEPT !.timer = "none"]

\* EventloopMetrics.prototype.stop
Stop ==
    /\ trace.started
    /\ trace.stopped = Undefined
    /\ eventloop' = ClearTimeout([eventloop EXCEPT !.stopAsap = TRUE])
    /\ trace' = [trace EXCEPT !.stopped = [collected |-> trace.collected,
                                           handlerCalls |-> trace.handlerCalls]]
    /\ UNCHANGED <<boxVars, rateVars, runVars, manager, request>>

(***************************************************************************)
(* lib/metrics-manager.js: createNodejsMetrics and its collectMetrics.     *)
(* Of the collectors only those fed by eventloopMetrics are modelled; the  *)
(* manager record holds the value of every counter and gauge (Undefined    *)
(* for a gauge that was never set).                                        *)
(***************************************************************************)
\* collectors.counter: name -> key of the object returned by get()
EventloopCounters ==
    [nodejs_eventloop_lag_seconds_total  |-> "lagSum",
     nodejs_eventloop_samples_total      |-> "sampleCount",
     nodejs_eventloop_tick_count_total   |-> "loopCountSum",
     nodejs_eventloop_time_seconds_total |-> "loopTimeSum"]

\* collectors.gauge: name -> key of the object returned by get()
EventloopGauges ==
    [nodejs_eventloop_max_lag_seconds  |-> "lagMax",
     nodejs_eventloop_max_tick_count   |-> "loopCountMax",
     nodejs_eventloop_max_time_seconds |-> "loopTimeMax",
     nodejs_eventloop_min_lag_seconds  |-> "lagMin",
     nodejs_eventloop_min_tick_count   |-> "loopCountMin",
     nodejs_eventloop_min_time_seconds |-> "loopTimeMin"]

\* the keys whose values get() reports in nanoseconds
TimeKeys == {"lagMax", "lagMin", "lagSum", "loopTimeMax", "loopTimeMin", "loopTimeSum"}

\* data.eventloopMetrics: the result of get() with the times in seconds
EventloopData(got) ==
    [k \in DOMAIN got |->
        IF k \in TimeKeys THEN Div(Whole(got[k]), Whole(NS_PER_SECOND)) ELSE Whole(got[k])]

\* _updateArtediCollector returns early: both tests look name up, the name of
\* the collector, in a list of keys
SkipsUpdate(name, elData) ==
    \/ /\ elData.sampleCount = Whole(0)
       /\ name \in {"lagMax", "lagMin", "lagSum"}
    \/ /\ elData.loopCountSum = Whole(0)
       /\ name \in {"loopTimeMax", "loopTimeMin", "loopTimeSum",
                    "loopCountMax", "loopCountMin", "loopCountSum"}

\* self.collector.counter / gauge for every collector, none updated yet
NewNodejsMetrics ==
    [counter |-> [name \in DOMAIN EventloopCounters |-> Whole(0)],
     gauge   |-> [name \in DOMAIN EventloopGauges |-> Undefined]]

\* collectMetrics(cb) of createNodejsMetrics: the collectors after the call
UpdatedCollectors(mgr, elData) ==
    [counter |-> [name \in DOMAIN EventloopCounters |->
                     IF SkipsUpdate(name, elData) THEN mgr.counter[name]
                     ELSE Add(mgr.counter[name],
                              MathMax(Whole(0), elData[EventloopCounters[name]]))],
     gauge   |-> [name \in DOMAIN EventloopGauges |->
                     IF SkipsUpdate(name, elData) THEN mgr.gauge[name]
                     ELSE elData[EventloopGauges[name]]]]

\* collectMetrics(cb), run before every collection of /metrics
CollectMetrics ==
    /\ trace.started
    /\ trace.gets < MaxGets
    /\ manager' = UpdatedCollectors(manager, EventloopData(GetResult(eventloop)))
    /\ eventloop' = AfterGet(eventloop)
    /\ trace' = [TraceAfterGet(trace, eventloop) EXCEPT !.collections = @ + 1]
    /\ UNCHANGED <<boxVars, rateVars, runVars, request>>

\* createNodejsMetrics up to self.eventloopMetrics = new EventloopMetrics();
\* start() is the first step
InitEventloop ==
    /\ NewDataBox(<<>>)
    /\ NoRates
    /\ NoRun
    /\ eventloop = NewEventloopMetrics
    /\ manager = NewNodejsMetrics
    /\ request = Undefined
    /\ trace = [started |-> FALSE, collected |-> 0, handlerCalls |-> 0, gets |-> 0,
                returned |-> 0, collectedAtLastGet |-> 0, collections |-> 0,
                stopped |-> Undefined]

NextEventloop ==
    \/ \E handlerFn \in HandlerFns : Start(handlerFn)
    \/ \E handlerFn \in HandlerFns : SetHandler(handlerFn)
    \/ \E s \in EventloopSamples : MeasureEventloopLag(s)
    \/ MeasureEventloopTime
    \/ Get
    \/ CollectMetrics
    \/ Reset
    \/ Stop

SpecEventloop == InitEventloop /\ [][NextEventloop]_vars

(***************************************************************************)
(* lib/metrics-manager.js: MetricsManager, addPreCollectFunc, listen and   *)
(* the handler of GET /metrics.  A request record holds the phase of the   *)
(* request ("received": getMetrics ran and waits for 'end'; "preCollect":  *)
(* vasync.parallel runs the functions; "collect": collector.collect was    *)
(* called; "finished"), the functions vasync.parallel was given, how often *)
(* each function was invoked, those still to call back and those that did, *)
(* the calls of collect, of res.send (or the error response) and of next,  *)
(* and the body of the response.                                           *)
(***************************************************************************)
\* the functions a service registers
FuncNames == {"f", "g"}

\* largest number of requests
MaxRequests == 2

\* the elements of a sequence
Range(s) == {s[i] : i \in 1..Len(s)}

\* mutant: the handler keeps the functions registered when it was created
HandlerFuncsAtConstruction(mgr) == <<>>

\* the array getMetricsHandler was given: this.preCollectFuncs itself, the
\* array addPreCollectFunc pushes to
HandlerFuncs(mgr) == mgr.preCollectFuncs

\* MetricsManager.prototype.addPreCollectFunc
AddPreCollectFunc(func) ==
    /\ func \notin Range(manager.preCollectFuncs)
    /\ manager' = [manager EXCEPT !.preCollectFuncs = Append(@, func)]
    /\ trace' = [trace EXCEPT !.late = IF manager.listening THEN @ \cup {func} ELSE @]
    /\ UNCHANGED <<boxVars, rateVars, runVars, eventloop, request>>

\* MetricsManager.prototype.listen
Listen ==
    /\ ~manager.listening
    /\ manager' = [manager EXCEPT !.listening = TRUE]
    /\ UNCHANGED <<boxVars, rateVars, runVars, eventloop, request, trace>>

\* getMetrics(req, res, next): req.on('end', collectMetrics); req.resume()
GetMetrics ==
    /\ manager.listening
    /\ Len(request) < MaxRequests
    /\ request' = Append(request,
                         [phase |-> "received", funcs |-> <<>>,
                          invoked |-> [f \in FuncNames |-> 0],
                          pending |-> {}, calledBack |-> {},
                          collects |-> 0, collected |-> FALSE,
                          responses |-> 0, nexts |-> 0, body |-> "none"])
    /\ trace' = [trace EXCEPT !.handled = Append(@, <<>>)]
    /\ UNCHANGED <<boxVars, rateVars, runVars, eventloop, manager>>

\* collector.collect(artedi.FMT_PROM, sendMetrics) is called
CallCollect(q) == [q EXCEPT !.phase = "collect", !.collects = @ + 1]

\* vasync.parallel calls its callback when every function has called back
ParallelDone(q) == q.pending = {}

\* the 'end' event of the request: vasync.parallel({funcs: preCollectFuncs})
\* invokes every function of the array
CollectMetricsOnEnd(r) ==
    /\ request[r].phase = "received"
    /\ LET funcs == HandlerFuncs(manager)
       IN  request' = [request EXCEPT ![r] =
                          [@ EXCEPT !.phase = "preCollect",
                                    !.funcs = funcs,
                                    !.invoked = [f \in FuncNames |->
                                                    @[f] + Cardinality({i \in 1..Len(funcs) : funcs[i] = f})],
                                    !.pending = Range(funcs)]]
    /\ trace' = [trace EXCEPT !.handled[r] = manager.preCollectFuncs]
    /\ UNCHANGED <<boxVars, rateVars, runVars, eventloop, manager>>

\* a function calls back (without an error, as addPreCollectFunc requires);
\* the last one to do so runs _onPreCollected
CallBack(r, func) ==
    /\ request[r].phase = "preCollect"
    /\ func \in request[r].pending
    /\ LET q == [request[r] EXCEPT !.pending = @ \ {func}, !.calledBack = @ \cup {func}]
       IN  request' = [request EXCEPT ![r] = IF ParallelDone(q) THEN CallCollect(q) ELSE q]
    /\ UNCHANGED <<boxVars, rateVars, runVars, eventloop, manager, trace>>

\* vasync.parallel with no function: its callback runs from setImmediate
OnPreCollected(r) ==
    /\ request[r].phase = "preCollect"
    /\ request[r].funcs = <<>>
    /\ request' = [request EXCEPT ![r] = CallCollect(@)]
    /\ UNCHANGED <<boxVars, rateVars, runVars, eventloop, manager, trace>>

\* sendMetrics(err, metrics): next(new VError(...)) on an error, to which
\* the server answers with an error response; else res.send(metrics); next()
SendMetrics(r, err) ==
    /\ request[r].phase = "collect"
    /\ request' = [request EXCEPT ![r] =
                      [@ EXCEPT !.phase = "finished", !.collected = TRUE,
                                !.responses = @ + 1, !.nexts = @ + 1,
                                !.body = IF err THEN "error" ELSE "metrics"]]
    /\ UNCHANGED <<boxVars, rateVars, runVars, eventloop, manager, trace>>

\* new MetricsManager(config)
InitHandler ==
    /\ NewDataBox(<<>>)
    /\ NoRates
    /\ NoRun
    /\ eventloop = Undefined
    /\ manager = [preCollectFuncs |-> <<>>, listening |-> FALSE]
    /\ request = <<>>
    /\ trace = [handled |-> <<>>, late |-> {}]

NextHandler ==
    \/ \E func \in FuncNames : AddPreCollectFunc(func)
    \/ Listen
    \/ GetMetrics
    \/ \E r \in 1..Len(request) : CollectMetricsOnEnd(r)
    \/ \E r \in 1..Len(request), func \in FuncNames : CallBack(r, func)
    \/ \E r \in 1..Len(request) : OnPreCollected(r)
    \/ \E r \in 1..Len(request), err \in BOOLEAN : SendMetrics(r, err)

SpecHandler == InitHandler /\ [][NextHandler]_vars

(***************************************************************************)
(* lib/metrics-manager.js: _getBuckets, _getLabels, createRestifyMetrics   *)
(* and collectRestifyMetrics.  An object is a function from its keys to    *)
(* their values, and Undefined (the function without a key) stands for an  *)
(* absent metricOpts.  manager.metricOpts is the object the caller passed  *)
(* as config.metricOpts (the manager keeps a reference to it, not a copy). *)
(* A series of the counter maps a label set to its count, a series of the  *)
(* histogram to its '+Inf' count.                                          *)
(***************************************************************************)
\* obj.hasOwnProperty(key)
HasOwnProperty(obj, key) == key \in DOMAIN obj

\* the default buckets: artedi.logLinearBuckets(10, -5, 3, 5) cut to
\* 0.001 .. 4000
DefaultBuckets ==
    << Num(1, 1000), Num(2, 1000), Num(4, 1000), Num(6, 1000), Num(8, 1000),
       Num(1, 100), Num(2, 100), Num(4, 100), Num(6, 100), Num(8, 100),
       Num(1, 10), Num(2, 10), Num(4, 10), Num(6, 10), Num(8, 10),
       Whole(1), Whole(2), Whole(4), Whole(6), Whole(8),
       Whole(10), Whole(20), Whole(40), Whole(60), Whole(80),
       Whole(100), Whole(200), Whole(400), Whole(600), Whole(800),
       Whole(1000), Whole(2000), Whole(4000) >>

\* the metricOpts is given for the metric and has the property
OptGiven(opts, metricName, property) ==
    /\ HasOwnProperty(opts, metricName)
    /\ HasOwnProperty(opts[metricName], property)

\* MetricsManager.prototype._getBuckets
getBuckets(opts, metricName) ==
    IF OptGiven(opts, metricName, "buckets") THEN opts[metricName].buckets ELSE DefaultBuckets

\* labels.buckets_version = '1' unless the labels have the property
WithBucketsVersion(labels) ==
    IF HasOwnProperty(labels, "buckets_version") THEN labels
    ELSE [k \in DOMAIN labels \cup {"buckets_version"} |->
             IF k = "buckets_version" THEN "1" ELSE labels[k]]

\* MetricsManager.prototype._getLabels: the labels it returns; the object is
\* the one found in metricOpts when there is one, a new one otherwise
getLabels(opts, metricName) ==
    WithBucketsVersion(IF OptGiven(opts, metricName, "labels")
                       THEN opts[metricName].labels ELSE Undefined)

\* metricOpts after _getLabels(metricName): the labels object found in it is
\* the one buckets_version was assigned to
MetricOptsAfterGetLabels(opts, metricName) ==
    IF OptGiven(opts, metricName, "labels")
    THEN [opts EXCEPT ![metricName].labels = WithBucketsVersion(@)]
    ELSE opts

\* the values of config.metricOpts
ConfigMetricOpts ==
    { Undefined,
      [http_request_duration_seconds |->
          [buckets |-> <<Whole(1), Whole(2), Whole(3), Whole(4)>>,
           labels |-> [buckets_version |-> "1"]]],
      [http_request_duration_seconds |->
          [buckets |-> <<Whole(1), Whole(2), Whole(3), Whole(4)>>]],
      [http_request_duration_seconds |-> [labels |-> [tier |-> "gold"]]],
      [http_requests_completed |-> [labels |-> [tier |-> "gold"]]] }

\* MetricsManager.prototype.createRestifyMetrics
CreateRestifyMetrics ==
    /\ ~manager.created
    /\ LET opts1 == MetricOptsAfterGetLabels(manager.metricOpts, "http_requests_completed")
           opts2 == MetricOptsAfterGetLabels(opts1, "http_request_duration_seconds")
       IN  manager' =
             [manager EXCEPT
                !.created = TRUE,
                !.metricOpts = opts2,
                !.counter = [labels |-> getLabels(manager.metricOpts, "http_requests_completed"),
                             series |-> Undefined],
                !.histogram = [buckets |-> getBuckets(opts1, "http_request_duration_seconds"),
                               labels |-> getLabels(opts1, "http_request_duration_seconds"),
                               series |-> Undefined]]
    /\ UNCHANGED <<boxVars, rateVars, runVars, eventloop, request, trace>>

\* the clients of the server and the user-agent headers each of them sends,
\* as the list of their tokens (no header for the anonymous client)
Clients == {"prometheus", "restify", "anonymous"}

UserAgents(client) ==
    CASE client = "prometheus" -> { <<"Prometheus/2.3.1">> }
      [] client = "restify" -> { <<"restify/1.4.1", "(x64-linux;", "v8/5.1.281.111)">>,
                                 <<"restify/1.4.1", "(ia32-sunos;", "v8/5.1.281.111)">> }
      [] OTHER -> { <<>> }

\* the routes: GET /metrics, a route given as a string and no route
Routes == {"getmetrics", "listvms", ""}

\* largest number of requests
MaxCompleted == 3

\* mutant: the whole user agent is the label
WholeUserAgent(userAgent) == userAgent

\* userAgent ? userAgent.split(' ')[0] : 'unknown'
ShortUserAgent(userAgent) == IF userAgent = <<>> THEN <<"unknown">> ELSE <<Head(userAgent)>>

\* the labels of collectMetrics(req, res, route)
RestifyLabels(req) ==
    [route |-> IF req.route # "" THEN req.route ELSE "unknown",
     method |-> req.method,
     user_agent |-> ShortUserAgent(req.userAgent),
     status_code |-> req.statusCode]

\* the value of a series for a label set (0 when it has none)
CountOf(series, labels) == IF labels \in DOMAIN series THEN series[labels] ELSE 0

\* increment(labels) of a counter, observe(value, labels) of a histogram
Incremented(series, labels) ==
    [l \in DOMAIN series \cup {labels} |->
        IF l = labels THEN CountOf(series, labels) + 1 ELSE series[l]]

\* a request arrives; a client sends its next request after the answer to
\* the one before
Arrive(client, route, userAgent) ==
    /\ manager.created
    /\ Len(trace.completed) + Len(request) < MaxCompleted
    /\ \A i \in 1..Len(request) : request[i].client # client
    /\ request' = Append(request,
                         [client |-> client, route |-> route, method |-> "GET",
                          userAgent |-> userAgent,
                          statusCode |-> IF route = "" THEN 404 ELSE 200,
                          phase |-> "handling"])
    /\ UNCHANGED <<boxVars, rateVars, runVars, eventloop, manager, trace>>

\* the handler chain of the request runs and answers; the answer to
\* GET /metrics holds the series as they are now
Respond(r) ==
    /\ request[r].phase = "handling"
    /\ request' = [request EXCEPT ![r].phase = "answered"]
    /\ trace' = IF request[r].route = "getmetrics"
                THEN [trace EXCEPT !.seen[request[r].client] =
                         Append(@, [completed |-> CountOf(manager.counter.series,
                                                          RestifyLabels(request[r])),
                                    duration |-> CountOf(manager.histogram.series,
                                                         RestifyLabels(request[r]))])]
                ELSE trace
    /\ UNCHANGED <<boxVars, rateVars, runVars, eventloop, manager>>

\* server.on('after', collectRestifyMetrics): collectMetrics(req, res, route)
CollectRestifyMetrics(r) ==
    /\ request[r].phase = "answered"
    /\ manager' = [manager EXCEPT
                      !.counter.series = Incremented(@, RestifyLabels(request[r])),
                      !.histogram.series = Incremented(@, RestifyLabels(request[r]))]
    /\ request' = [i \in 1..(Len(request) - 1) |->
                      IF i < r THEN request[i] ELSE request[i + 1]]
    /\ trace' = [trace EXCEPT !.completed = Append(@, request[r])]
    /\ UNCHANGED <<boxVars, rateVars, runVars, eventloop>>

\* createMetricsManager(config)
InitRestify ==
    /\ NewDataBox(<<>>)
    /\ NoRates
    /\ NoRun
    /\ eventloop = Undefined
    /\ \E opts \in ConfigMetricOpts :
          /\ manager = [metricOpts |-> opts, created |-> FALSE,
                        counter |-> Undefined, histogram |-> Undefined]
          /\ trace = [config |-> opts, completed |-> <<>>,
                      seen |-> [c \in Clients |-> <<>>]]
    /\ request = <<>>

NextRestify ==
    \/ CreateRestifyMetrics
    \/ \E client \in Clients, route \in Routes :
          \E userAgent \in UserAgents(client) : Arrive(client, route, userAgent)
    \/ \E r \in 1..Len(request) : Respond(r)
    \/ \E r \in 1..Len(request) : CollectRestifyMetrics(r)

SpecRestify == InitRestify /\ [][NextRestify]_vars

(***************************************************************************)
(* lib/metrics-manager.js: createMultipleMetrics.  manager.created is the  *)
(* list of the create functions called, in the order of the calls;         *)
(* trace.metricsTypes is the argument of the call and trace.outcome how it *)
(* ended.  The loop variable of the first loop is metricsTypes itself:     *)
(* after metricsTypes++ it is a Number, whose length is undefined.         *)
(***************************************************************************)
\* the keys of types, in the order of Object.keys(types)
TypeNames == <<"node-core", "node-gc", "restify">>

\* types[metric].fn
TypeFn(metric) ==
    CASE metric = "node-core" -> "createNodeMetrics"
      [] metric = "node-gc" -> "createGCMetrics"
      [] OTHER -> "createRestifyMetrics"

\* the names a caller may pass
MetricsTypeNames == {"node-core", "node-gc", "restify", "*", "bogus"}

\* largest length of metricsTypes
MaxTypes == 3

\* _addMetric(metric)
addMetric(st, metric) ==
    IF st.threw THEN st
    ELSE IF metric \in st.seen THEN [st EXCEPT !.threw = TRUE]
    ELSE [st EXCEPT !.seen = @ \cup {metric}, !.toCreate = Append(@, metric)]

\* the body of the first loop for metricType = metricsTypes[idx]
AddLoopBody(st, metricType) ==
    IF metricType = "*"
    THEN addMetric(addMetric(addMetric(st, TypeNames[1]), TypeNames[2]), TypeNames[3])
    ELSE IF metricType \notin Range(TypeNames) THEN [st EXCEPT !.threw = TRUE]
    ELSE addMetric(st, metricType)

\* idx < metricsTypes.length (false when metricsTypes is a Number)
LoopContinues(mt, idx) == mt.isArray /\ idx < Len(mt.items)

\* metricsTypes++: the variable becomes a Number
PostIncrement(mt) == [isArray |-> FALSE, items |-> <<>>]

\* for (idx = 0; idx < metricsTypes.length; metricsTypes++) { ... }
RECURSIVE AddLoop(_, _, _)
AddLoop(mt, idx, st) ==
    IF st.threw \/ ~LoopContinues(mt, idx) THEN st
    ELSE AddLoop(PostIncrement(mt), idx, AddLoopBody(st, mt.items[idx + 1]))

\* MetricsManager.prototype.createMultipleMetrics
CreateMultipleMetrics(metricsTypes) ==
    /\ trace.outcome = "none"
    /\ \E st \in {AddLoop([isArray |-> TRUE, items |-> metricsTypes], 0,
                          [seen |-> {}, toCreate |-> <<>>, threw |-> FALSE])} :
          /\ manager' = [manager EXCEPT !.created =
                            IF st.threw THEN @
                            ELSE @ \o [i \in 1..Len(st.toCreate) |-> TypeFn(st.toCreate[i])]]
          /\ trace' = [metricsTypes |-> metricsTypes,
                       outcome |-> IF st.threw THEN "threw" ELSE "returned"]
    /\ UNCHANGED <<boxVars, rateVars, runVars, eventloop, request>>

\* createMetricsManager(config)
InitCreate ==
    /\ NewDataBox(<<>>)
    /\ NoRates
    /\ NoRun
    /\ eventloop = Undefined
    /\ request = Undefined
    /\ manager = [created |-> <<>>]
    /\ trace = [metricsTypes |-> <<>>, outcome |-> "none"]

NextCreate ==
    \E metricsTypes \in SeqsOf(MetricsTypeNames, 0, MaxTypes) :
        CreateMultipleMetrics(metricsTypes)

SpecCreate == InitCreate /\ [][NextCreate]_vars

(***************************************************************************)
(* Properties.                                                             *)
(***************************************************************************)
CalledProm == ret.op = "getPrometheusQuantile"

CalledReal == ret.op = "getRealQuantile"

Last(s) == s[Len(s)]

\* the reference algorithm of C1, indices 1-based
SmallestReaching(bk, pd, rank) ==
    LET S == {i \in 1..Len(bk) : Ge(pd.le[bk[i]], rank)}
    IN  IF S = {} THEN 0 ELSE CHOOSE i \in S : \A j \in S : i <= j

ReferenceQuantile(q, bk, pd) ==
    LET rank == Mul(pd.Inf, q)
        b    == SmallestReaching(bk, pd, rank)
        cumBelow   == IF b = 1 THEN Whole(0) ELSE pd.le[bk[b - 1]]
        startBelow == IF b = 1 THEN Whole(0) ELSE bk[b - 1]
    IN  IF b = 0 THEN Last(bk)
        ELSE IF b = 1 /\ Le(bk[1], Whole(0)) THEN bk[1]
        ELSE Add(startBelow,
                 Mul(Sub(bk[b], startBelow),
                     Div(Sub(rank, cumBelow), Sub(pd.le[bk[b]], cumBelow))))

\* C1: for every 0 < q < 1, every bucket list with at least 2 boundaries and
\* every histogram, getPrometheusQuantile returns the value of the reference
\* algorithm (smallest bucket whose cumulative count reaches the rank, last
\* boundary when there is none, boundaries[0] when it is the first and is
\* <= 0, linear interpolation otherwise).
C1_QuantileIsReference ==
    CalledProm => ret.value = ReferenceQuantile(ret.q, buckets, promData)

\* C1 witness: a call that interpolated inside a bucket other than the first
C1_Witness ==
    /\ CalledProm
    /\ FindBucket(0, 0 - 1, buckets, promData, Mul(promData.Inf, ret.q)) > 0
    /\ IsFinite(ret.value)
    /\ \A i \in 1..Len(buckets) : ret.value # buckets[i]

AllPositive(bk) == \A i \in 1..Len(bk) : Gt(bk[i], Whole(0))

StrictlyAscending(bk) == \A i \in 1..(Len(bk) - 1) : Lt(bk[i], bk[i + 1])

\* C2 (as stated): with at least 2 ascending positive boundaries, for every
\* histogram built by addDatum the value returned by getPrometheusQuantile
\* lies within [boundaries[0], boundaries[last]].  Stated here for its
\* plainest case: boundaries without duplicates and at least one value added.
C2_Original ==
    (CalledProm /\ AllPositive(buckets) /\ StrictlyAscending(buckets) /\ added # <<>>)
        => (Le(buckets[1], ret.value) /\ Le(ret.value, Last(buckets)))

\* C2 (amended): with at least 2 ascending positive boundaries, the value
\* returned for a histogram holding at least one value lies within
\* [0, boundaries[last]]; for the histogram without values it is NaN.
C2_WithinZeroAndLast ==
    (CalledProm /\ AllPositive(buckets))
        => IF added = <<>> THEN IsNaN(ret.value)
           ELSE Le(Whole(0), ret.value) /\ Le(ret.value, Last(buckets))

\* C2 witness: a value strictly below boundaries[0] was returned
C2_Witness ==
    /\ CalledProm /\ AllPositive(buckets) /\ added # <<>>
    /\ Lt(ret.value, buckets[1])

AllBelowFirst == \A i \in 1..Len(added) : Lt(added[i], buckets[1])

\* C3 (as stated): when every value added is below the smallest boundary,
\* getPrometheusQuantile returns exactly boundaries[0].  Stated here for its
\* plainest case: boundaries without duplicates and at least one value added.
C3_Original ==
    (CalledProm /\ StrictlyAscending(buckets) /\ added # <<>> /\ AllBelowFirst)
        => ret.value = buckets[1]

\* how many times the smallest boundary occurs in the bucket list
FirstMultiplicity == Cardinality({i \in 1..Len(buckets) : buckets[i] = buckets[1]})

\* C3 (amended): when at least one value was added and every value is below
\* the smallest boundary, the result is boundaries[0] itself only when
\* boundaries[0] <= 0; when boundaries[0] > 0 it is boundaries[0] * q / m,
\* m being the number of occurrences of boundaries[0] in the list.
C3_BelowFirstInterpolatesFromZero ==
    (CalledProm /\ added # <<>> /\ AllBelowFirst)
        => ret.value = IF Le(buckets[1], Whole(0)) THEN buckets[1]
                       ELSE Div(Mul(buckets[1], ret.q), Whole(FirstMultiplicity))

\* C3 witness: two values below a positive first boundary, then a quantile
C3_Witness ==
    /\ CalledProm /\ Len(added) >= 2 /\ AllBelowFirst
    /\ Gt(buckets[1], Whole(0))
    /\ ret.value # buckets[1]

\* C4 (as stated): when the interpolation step is reached with
\* countInBucket = 0, the result is bucketStart and not NaN.
C4_Original ==
    LET b == FindBucket(0, 0 - 1, buckets, promData, Mul(promData.Inf, ret.q))
    IN  (/\ CalledProm
         /\ b >= 0
         /\ ~(b = 0 /\ Le(buckets[1], Whole(0)))
         /\ CountInBucket(b, buckets, promData) = Whole(0))
            => (ret.value = BucketStart(b, buckets) /\ ~IsNaN(ret.value))

\* number of values of s below v / not above v
CountLt(s, v) == Cardinality({i \in 1..Len(s) : Lt(s[i], v)})

CountLe(s, v) == Cardinality({i \in 1..Len(s) : Le(s[i], v)})

\* the element at 0-based position k of the values of s in ascending order
AscendingAt(s, k) ==
    CHOOSE v \in {s[i] : i \in 1..Len(s)} : CountLt(s, v) <= k /\ k < CountLe(s, v)

\* C5: for every 0 < q < 1 and every non-empty population of n values,
\* getRealQuantile returns the element at 0-based index max(0, floor(q*n)-1)
\* of the values sorted ascending, whatever the order of the addDatum calls
\* and whatever getRealQuantile calls came in between.
C5_RealQuantileIsNearestRank ==
    CalledReal =>
        ret.value = AscendingAt(added,
                        MaxInt(0, Floor(Mul(ret.q, Whole(Len(added)))) - 1))

\* C5 witness: a quantile taken after values were appended out of order to
\* an array that had been sorted by an earlier getRealQuantile call
C5_Witness ==
    /\ CalledReal
    /\ Len(added) = MaxData
    /\ Lt(added[Len(added)], added[1])
    /\ Lt(added[1], added[2])
    /\ sorts >= 2
    /\ ret.value # added[MaxInt(0, Floor(Mul(ret.q, Whole(Len(added)))) - 1) + 1]

\* C6: after any sequence of addDatum calls, for any bucket list, the '+Inf'
\* count equals the number of addDatum calls made on the DataBox.
C6_InfCountsCalls == promData.Inf = Whole(Len(added))

\* C6 witness: two calls, one of them with a value above every boundary
C6_Witness ==
    /\ Len(added) = 2
    /\ Len(buckets) >= 1
    /\ Gt(added[2], Last(buckets))
    /\ promData.Inf = Whole(2)

\* C7: for every bucket list main() can build and after any sequence of
\* addDatum calls, b1 < b2 implies count(b1) <= count(b2) <= count(+Inf).
C7_Original ==
    \A i, j \in 1..Len(buckets) :
        Lt(buckets[i], buckets[j])
            => /\ Le(promData.le[buckets[i]], promData.le[buckets[j]])
               /\ Le(promData.le[buckets[j]], promData.Inf)

CalledRates == rates # Undefined /\ Len(samples) >= 2

\* seconds
Seconds(ms) == Div(ms, Whole(1000))

\* C8's formula, in seconds: the extrapolated interval
RefExtrapolated(end, smp) ==
    LET n         == Len(smp)
        sampled   == Seconds(Sub(smp[n].time, smp[1].time))
        avgGap    == Div(sampled, Whole(n - 1))
        toStart   == Sub(Seconds(smp[1].time), Sub(Seconds(end), Whole(300)))
        toEnd     == Sub(Seconds(end), Seconds(smp[n].time))
        threshold == Mul(Num(11, 10), avgGap)
        half      == Div(avgGap, Whole(2))
    IN  Add(Add(sampled, IF Lt(toStart, threshold) THEN toStart ELSE half),
            IF Lt(toEnd, threshold) THEN toEnd ELSE half)

\* C8's formula, in seconds: the rate of one boundary
RefRate(first, last, end, smp) ==
    LET sampled == Seconds(Sub(smp[Len(smp)].time, smp[1].time))
    IN  Div(Mul(Sub(last, first), Div(RefExtrapolated(end, smp), sampled)), Whole(300))

IsScenario ==
    /\ buckets = ScenarioBuckets
    /\ Len(samples) = 2
    /\ samples[1].time = Whole(15000) /\ samples[2].time = Whole(30000)
    /\ sampleEnd = Whole(300000)
    /\ samples[1].le[Num(1, 4)] = Whole(1) /\ samples[2].le[Num(1, 4)] = Whole(2)

SameCounts(s1, s2) == s1.le = s2.le /\ s1.Inf = s2.Inf

AllRatesZero ==
    /\ \A k \in BucketKeys(buckets) : rates.le[k] = Whole(0)
    /\ rates.Inf = Whole(0)

IsReadmeRun == buckets = ReadmeBuckets /\ chunkSize = CHUNK_SIZE_DEFAULT

\* whether x is printed as shown by +(x.toFixed(f)), whichever way a tie falls
ShownAs(x, shown, f) == Le(MathAbs(Sub(x, shown)), Num(1, 2 * Pow10(f)))

\* a line "# Pxx actual: a, prometheus: p, error: e" of the README run
ReadmeLine(q, a, exact, p, e) ==
    LET r == results[1].quantiles[q]
    IN  /\ r.actual = a
        /\ r.prometheus = exact
        /\ ShownAs(r.prometheus, p, 4)
        /\ r.error = e

\* C10: count-chunked mode on the nine lines 336, 42, 73, 67, 130, 157, 174,
\* 153, 138 (ms) with the boundaries [0.005 .. 10] produces one chunk whose
\* report has, for P50, actual 0.130, estimated 0.145 and error 11.54, and
\* for the six other levels the values of the README run.
C10_ReadmeRun ==
    (IsReadmeRun /\ pc = "done") =>
        /\ Len(results) = 1
        /\ results[1].count = 9
        /\ ReadmeLine(Num(999, 1000), Num(174, 1000), Num(49775, 100000), Num(4977, 10000), Num(18606, 100))
        /\ ReadmeLine(Num(99, 100), Num(174, 1000), Num(4775, 10000), Num(4775, 10000), Num(17443, 100))
        /\ ReadmeLine(Num(98, 100), Num(174, 1000), Num(455, 1000), Num(455, 1000), Num(16149, 100))
        /\ ReadmeLine(Num(95, 100), Num(174, 1000), Num(3875, 10000), Num(3875, 10000), Num(1227, 10))
        /\ ReadmeLine(Num(75, 100), Num(153, 1000), Num(2125, 10000), Num(2125, 10000), Num(3889, 100))
        /\ ReadmeLine(Num(50, 100), Num(130, 1000), Num(145, 1000), Num(145, 1000), Num(1154, 100))
        /\ ReadmeLine(Num(25, 100), Num(67, 1000), Num(8125, 100000), Num(813, 10000), Num(2127, 100))

\* C10 witness: the README run has ended with its summary printed
C10_Witness ==
    /\ IsReadmeRun /\ pc = "done" /\ input = <<>>
    /\ Len(results) = 1
    /\ summary # Undefined

(***************************************************************************)
(* Properties of the runs (count-chunked mode and rate mode).              *)
(***************************************************************************)
\* the values, in seconds, of the lines ls of a count-chunked run
SecondsOf(ls) == [i \in DOMAIN ls |-> Seconds(ls[i])]

MinInt(i, j) == IF i < j THEN i ELSE j

\* the input values at positions (k-1)*n+1 .. min(k*n, L), positions from 1
ChunkOf(vals, k, n) == SubSeq(vals, (k - 1) * n + 1, MinInt(k * n, Len(vals)))

\* the histogram of a new DataBox after addDatum of each value of vals
RECURSIVE FedPromData(_, _)
FedPromData(bk, vals) ==
    IF vals = <<>> THEN NewPromData(bk)
    ELSE addDatumPromData(FedPromData(bk, SubSeq(vals, 1, Len(vals) - 1)), bk, Last(vals))

\* the report of a DataBox that was given exactly vals
ReportOfChunk(bk, vals) == getResult(bk, vals, FALSE, FedPromData(bk, vals))

\* C11: in count-chunked mode with chunk size N >= 1, the k-th report is
\* computed from exactly the input values of the k-th run of N positions and
\* from no other value; a report is emitted as soon as a chunk holds N values
\* (the DataBox then holds only the values read since), and at end of stream
\* the terminal chunk of fewer than N values is reported.
C11_ReportsAreChunks ==
    chunkSize >= 1 =>
        LET vals == SecondsOf(read)
        IN  /\ \A k \in 1..Len(results) :
                  results[k] = ReportOfChunk(buckets, ChunkOf(vals, k, chunkSize))
            /\ pc = "reading" =>
                  /\ Len(results) = Len(read) \div chunkSize
                  /\ data = SubSeq(vals, Len(results) * chunkSize + 1, Len(vals))
                  /\ promData = FedPromData(buckets, data)
            /\ pc = "done" =>
                  /\ input = <<>>
                  /\ Len(results) = (Len(read) + chunkSize - 1) \div chunkSize

\* three lines read in chunks of 2: two reports, the second one from the third
\* line alone
C11_Witness ==
    /\ pc = "done"
    /\ chunkSize = 2
    /\ Len(read) = 3
    /\ Len(results) = 2
    /\ read[3] # read[1]
    /\ results[2].quantiles[Num(1, 2)].actual = Seconds(read[3])

\* no line read so far was refused by assert.number
WellFormed == \A i \in 1..Len(read) : ~IsNaN(read[i])

\* C12 (as claimed): when the input ends on a chunk boundary, the DataBox left
\* at end of stream holds no value; that chunk is skipped and the run is not
\* aborted: it ends with the summary of the reports already recorded.
C12_Original ==
    ( /\ pc # "reading"
      /\ input = <<>>
      /\ WellFormed
      /\ Len(buckets) >= 2
      /\ data = <<>>
      /\ results # <<>> )
    => (pc = "done" /\ summary = outputResults(results))

\* the reports of a rate-mode run that followed the eviction of a snapshot
AfterEviction(k) == used[k].evicted # Undefined

\* C13 (as claimed): when pushing a snapshot makes the window exceed its
\* capacity, the rates and the quantiles are computed over the sequence that
\* still contains the oldest snapshot, which is removed only afterwards.
C13_Original ==
    \A k \in 1..Len(used) :
        AfterEviction(k) =>
            \E i \in 1..Len(used[k].samples) : used[k].samples[i].time = used[k].evicted

\* C13 (amended): the window never holds more than WindowCapacity snapshots;
\* when a push exceeds the capacity the oldest snapshot is removed first, and
\* the rates and the quantiles are then computed over the WindowCapacity
\* snapshots that remain, the next-oldest one first and the pushed one last.
C13_EvictedBeforeComputation ==
    /\ Len(samples) <= WindowCapacity
    /\ Len(used) = Len(results)
    /\ \A k \in 1..Len(used) :
          AfterEviction(k) =>
              LET smp == used[k].samples
              IN  /\ Len(smp) = WindowCapacity
                  /\ \A i \in 1..Len(smp) : Gt(smp[i].time, used[k].evicted)
                  /\ smp[1].time = Add(used[k].evicted, Whole(SAMPLE_FREQ))
                  /\ Last(smp).time = used[k].sampleEnd
                  /\ results[k] = calculateResult(buckets, smp,
                                      calculateRates(buckets, used[k].sampleEnd, smp))

\* a report made right after the snapshot of the first interval was evicted,
\* with a value counted between the first and the last retained snapshot
C13_Witness ==
    /\ Len(used) >= 1
    /\ AfterEviction(1)
    /\ used[1].evicted = Whole(15000)
    /\ Gt(Last(used[1].samples).Inf, used[1].samples[1].Inf)

\* the line l was read in the sampling interval that ends at end: the first
\* interval starts with the first line, every other one after the end of the
\* interval before it
InInterval(l, end) ==
    LET lo == Sub(end, Whole(SAMPLE_FREQ))
    IN  /\ Le(l[1], end)
        /\ IF lo = read[1][1] THEN Ge(l[1], lo) ELSE Gt(l[1], lo)

\* the values, in seconds and in input order, of the lines among ls that
\* were read in the interval that ends at end
RECURSIVE IntervalValuesOf(_, _)
IntervalValuesOf(ls, end) ==
    IF ls = <<>> THEN <<>>
    ELSE LET before == IntervalValuesOf(SubSeq(ls, 1, Len(ls) - 1), end)
         IN  IF InInterval(Last(ls), end) THEN Append(before, Seconds(Last(ls)[2]))
             ELSE before

\* the values ingested during the interval that ends at end
IntervalValues(end) == IntervalValuesOf(read, end)

\* the values ingested during the intervals of the snapshots smp
RECURSIVE WindowValues(_)
WindowValues(smp) ==
    IF smp = <<>> THEN <<>>
    ELSE WindowValues(SubSeq(smp, 1, Len(smp) - 1)) \o IntervalValues(Last(smp).time)

\* C14: in rate mode every retained snapshot holds exactly the values ingested
\* during its sampling interval (so evicting a snapshot removes the values of
\* its interval and no others, and a retained snapshot never loses a value),
\* the values not yet in a snapshot are those of the current interval, and
\* the 'actual' quantile of every report is the nearest-rank quantile of the
\* values ingested during the intervals of the snapshots it was computed from.
C14_ValuesFollowWindow ==
    /\ \A i \in 1..Len(samples) : samples[i].values = IntervalValues(samples[i].time)
    /\ (pc # "failed" /\ read # <<>>) => values = IntervalValues(sampleEnd)
    /\ \A k \in 1..Len(used) :
          \A q \in QuantileKeys :
              results[k].quantiles[q].actual =
                  RealQuantileOf(q, SortNum(WindowValues(used[k].samples)))

\* a report made after the snapshot holding the first value was evicted, from
\* a window whose snapshots still hold a value
C14_Witness ==
    /\ Len(used) >= 1
    /\ AfterEviction(Len(used))
    /\ Len(extractValues(samples)) >= 1
    /\ Len(read) > Len(extractValues(samples)) + Len(values)
    /\ pc = "reading"

\* C15 (as claimed): at end of stream the values ingested since the last
\* interval boundary are part of the population of the final report, next to
\* the values of the retained snapshots, and the final report is made from a
\* window that no earlier report was made from.
C15_Original ==
    (pc = "done" /\ used # <<>>) =>
        /\ Len(extractValues(Last(used).samples)) = Len(extractValues(samples)) + Len(values)
        /\ \A k \in 1..(Len(used) - 1) : used[k].samples # Last(used).samples

\* C16 (as claimed, rate mode): while the input is read, the raw values the
\* processor retains (those of the DataBox included) are at most the values
\* of the retained snapshots plus those of the current interval.
C16_Original ==
    pc = "reading" => Len(data) <= Len(extractValues(samples)) + Len(values)

\* no line of the rate-mode input read so far was refused by assert.number
RateWellFormed == \A i \in 1..Len(read) : ~IsNaN(read[i][1]) /\ ~IsNaN(read[i][2])

\* C17 (as claimed, rate mode): with a well-formed input and at least 2
\* boundaries, the run ends by printing the summary, whatever the number of
\* reports recorded.
C17_Original ==
    (pc # "reading" /\ RateWellFormed /\ Len(buckets) >= 2)
    => (pc = "done" /\ input = <<>> /\ summary # Undefined)

\* the field f ("error", "actual" or "prometheus") of the reports of level q
FieldOf(res, q, f) == [k \in 1..Len(res) |-> res[k].quantiles[q][f]]

\* Math.min, Math.max and the sum of a non-empty list of Numbers
RECURSIVE MinOf(_)
MinOf(xs) == IF Len(xs) = 1 THEN xs[1] ELSE MathMin(MinOf(SubSeq(xs, 1, Len(xs) - 1)), Last(xs))

RECURSIVE MaxOf(_)
MaxOf(xs) == IF Len(xs) = 1 THEN xs[1] ELSE MathMax(MaxOf(SubSeq(xs, 1, Len(xs) - 1)), Last(xs))

RECURSIVE SumOf(_)
SumOf(xs) == IF Len(xs) = 1 THEN xs[1] ELSE Add(SumOf(SubSeq(xs, 1, Len(xs) - 1)), Last(xs))

AverageOf(xs) == Div(SumOf(xs), Whole(Len(xs)))

\* C18 (as claimed): for every quantile level the rows of the summary show
\* the minimum, the maximum and sum / number of reports of the error, of the
\* actual and of the estimated quantile over all recorded reports (the
\* averages and the estimated extremes rounded for display).
C18_Original ==
    pc = "done" =>
        \A q \in QuantileKeys :
            LET e == FieldOf(results, q, "error")
                a == FieldOf(results, q, "actual")
                p == FieldOf(results, q, "prometheus")
            IN  /\ summary[q].min_e = MinOf(e)
                /\ summary[q].max_e = MaxOf(e)
                /\ summary[q].avg_e = ToFixed(AverageOf(e), 2)
                /\ summary[q].min_a = MinOf(a)
                /\ summary[q].max_a = MaxOf(a)
                /\ summary[q].avg_a = ToFixed(AverageOf(a), 2)
                /\ summary[q].min_p = ToFixed(MinOf(p), 3)
                /\ summary[q].max_p = ToFixed(MaxOf(p), 3)
                /\ summary[q].avg_p = ToFixed(AverageOf(p), 2)

\* the fields of a row of the summary
SummaryFields == {"min_e", "max_e", "avg_e", "min_a", "max_a", "avg_a", "min_p", "max_p", "avg_p"}

\* C19 (as claimed): no report carries NaN or Infinity as its error (a report
\* whose estimated or actual quantile is zero carries a sentinel instead), and
\* no field of the summary is NaN or Infinity.
C19_Original ==
    /\ \A k \in 1..Len(results) :
          \A q \in QuantileKeys : IsFinite(results[k].quantiles[q].error)
    /\ summary # Undefined =>
          \A q \in QuantileKeys : \A f \in SummaryFields : IsFinite(summary[q][f])

HasDuplicates(bk) == \E i, j \in 1..Len(bk) : i # j /\ bk[i] = bk[j]

\* an empty bucket list, one with duplicates, or a non-positive chunk size
InvalidConfiguration == Len(buckets) = 0 \/ HasDuplicates(buckets) \/ chunkSize <= 0

\* C20 (as claimed): a run with an invalid configuration fails before any
\* input line is read: no line is read, no value is ingested and no report is
\* produced.
C20_Original ==
    InvalidConfiguration => (read = <<>> /\ data = <<>> /\ results = <<>> /\ pc # "done")

(***************************************************************************)
(* Malformed input lines.                                                  *)
(***************************************************************************)
\* the line is the decimal notation of a number (white space around it aside)
IsNumeral(line) ==
    LET ds == TrimEnd(TrimStart(line))
    IN  ds # <<>> /\ \A i \in 1..Len(ds) : IsDigit(ds[i])

\* C21 (as claimed, chunk mode): an input line whose value is not numeric makes
\* the whole run fail at that line: once such a line is read the run has
\* failed, it is the last line read and no summary is produced.
C21_Original ==
    \A i \in 1..Len(read) :
        ~IsNumeral(stdin[i]) => (pc = "failed" /\ i = Len(read) /\ summary = Undefined)

(***************************************************************************)
(* getRealQuantile is monotone in q.                                       *)
(***************************************************************************)
\* quantile levels strictly between 0 and 1
QLevels == {Num(1, 4), Num(1, 2), Num(3, 4), Num(999, 1000)}

\* C22: for the population held by the DataBox (when it is not empty) and any
\* two levels q1 <= q2 strictly between 0 and 1, getRealQuantile(q1) is at
\* most getRealQuantile(q2).
C22_RealQuantileMonotone ==
    Len(data) > 0 =>
        \A q1, q2 \in QLevels :
            Le(q1, q2) => Le(BoxRealQuantile(q1, data, sorted), BoxRealQuantile(q2, data, sorted))

\* getRealQuantile was called on values added out of order, and two levels
\* give different elements
C22_Witness ==
    /\ CalledReal
    /\ Len(added) >= 2
    /\ Gt(added[1], added[Len(added)])
    /\ Lt(BoxRealQuantile(Num(1, 4), data, sorted), BoxRealQuantile(Num(3, 4), data, sorted))

(***************************************************************************)
(* The snapshots calculateRates is given in rate mode.                     *)
(***************************************************************************)
\* consecutive snapshots are exactly SAMPLE_FREQ apart, the later one later
EvenlySpaced(smp) ==
    \A i \in 1..(Len(smp) - 1) :
        /\ Lt(smp[i].time, smp[i + 1].time)
        /\ Sub(smp[i + 1].time, smp[i].time) = Whole(SAMPLE_FREQ)

\* no cumulative count decreases from one snapshot to the next
CountsNeverDecrease(smp) ==
    \A i \in 1..(Len(smp) - 1) :
        /\ Le(smp[i].Inf, smp[i + 1].Inf)
        /\ \A k \in DOMAIN smp[i].le : Le(smp[i].le[k], smp[i + 1].le[k])

\* every rate of the vector is at least 0
RatesNotNegative(rt) ==
    /\ Ge(rt.Inf, Whole(0))
    /\ \A k \in DOMAIN rt.le : Ge(rt.le[k], Whole(0))

\* what C28 says of one call of calculateRates on smp with window end end
GoodRateCall(end, smp) ==
    Len(smp) >= 2 =>
        /\ Len(smp) <= VECTOR_SELECTOR \div SAMPLE_FREQ
        /\ EvenlySpaced(smp)
        /\ CountsNeverDecrease(smp)
        /\ Gt(SampledInterval(smp), Whole(0))
        /\ RatesNotNegative(calculateRates(buckets, end, smp))

\* C28 (rate mode): every call of calculateRates that yields a rate vector is
\* given between 2 and 20 snapshots whose timestamps are strictly increasing
\* and exactly SAMPLE_FREQ apart and whose cumulative counts never decrease,
\* so that sampledInterval > 0 and every rate is >= 0.  The calls are those
\* behind the reports (used) and the one on the window the run holds now.
C28_RateCallsAreWellFormed ==
    /\ \A i \in 1..Len(used) :
          Len(used[i].samples) >= 2 /\ GoodRateCall(used[i].sampleEnd, used[i].samples)
    /\ sampleEnd # Undefined => GoodRateCall(sampleEnd, samples)

\* a report computed from a full window of 20 snapshots with a positive rate
C28_Witness ==
    /\ Len(used) >= 1
    /\ Len(used[1].samples) = 20
    /\ Gt(calculateRates(buckets, used[1].sampleEnd, used[1].samples).Inf, Whole(0))

(***************************************************************************)
(* EventloopMetrics: get(), stop() and the collectors fed from get().      *)
(***************************************************************************)
\* C24 (as claimed): whatever the interleaving of sample callbacks, handler
\* invocations and get() calls, the sampleCount values returned by the get()
\* calls so far sum to the number of samples collected before the last get().
C24_Original == trace.returned = trace.collectedAtLastGet

\* C25 (as claimed): after stop() has returned no further sample is recorded
\* into the aggregates and the handler function is not invoked again.
C25_Original ==
    trace.stopped # Undefined =>
        /\ trace.collected = trace.stopped.collected
        /\ trace.handlerCalls = trace.stopped.handlerCalls

\* the collectors of the event-loop lag
LagCollectorsUnchanged ==
    /\ manager'.gauge.nodejs_eventloop_max_lag_seconds = manager.gauge.nodejs_eventloop_max_lag_seconds
    /\ manager'.gauge.nodejs_eventloop_min_lag_seconds = manager.gauge.nodejs_eventloop_min_lag_seconds
    /\ manager'.counter.nodejs_eventloop_lag_seconds_total = manager.counter.nodejs_eventloop_lag_seconds_total

\* the collectors of the loop time and the loop count
LoopCollectorsUnchanged ==
    /\ \A name \in {"nodejs_eventloop_max_tick_count", "nodejs_eventloop_max_time_seconds",
                    "nodejs_eventloop_min_tick_count", "nodejs_eventloop_min_time_seconds"} :
          manager'.gauge[name] = manager.gauge[name]
    /\ \A name \in {"nodejs_eventloop_tick_count_total", "nodejs_eventloop_time_seconds_total"} :
          manager'.counter[name] = manager.counter[name]

\* C29 (as claimed): a call of collectMetrics that finds sampleCount = 0 leaves
\* the lag gauges and the lag counter as they were, and one that finds
\* loopCountSum = 0 leaves the loop time and loop count gauges and counters as
\* they were.
C29_Original ==
    [][trace'.collections # trace.collections =>
          /\ GetResult(eventloop).sampleCount = 0 => LagCollectorsUnchanged
          /\ GetResult(eventloop).loopCountSum = 0 => LoopCollectorsUnchanged]_vars

ExpectedLabels(req) ==
    [route |-> IF req.route = "" THEN "unknown" ELSE req.route,
     method |-> req.method,
     user_agent |-> IF Len(req.userAgent) = 0 THEN <<"unknown">> ELSE <<req.userAgent[1]>>,
     status_code |-> req.statusCode]

\* the number of collectRestifyMetrics calls made for the label set
CallsFor(labels) ==
    Cardinality({i \in 1..Len(trace.completed) : ExpectedLabels(trace.completed[i]) = labels})

\* the label sets counted or to be counted
LabelSets ==
    DOMAIN manager.counter.series \cup DOMAIN manager.histogram.series
        \cup {ExpectedLabels(trace.completed[i]) : i \in 1..Len(trace.completed)}

\* C26: every call of collectRestifyMetrics adds exactly 1 to
\* http_requests_completed and exactly one observation to
\* http_request_duration_seconds under the label set {route, method, first
\* token of the user agent, status code}: each series equals the number of
\* calls made for its label set, and the counts seen by two consecutive
\* /metrics scrapes of a client differ by exactly 1.
C26_OneCallCountsOne ==
    manager.created =>
        /\ \A labels \in LabelSets :
              /\ CountOf(manager.counter.series, labels) = CallsFor(labels)
              /\ CountOf(manager.histogram.series, labels) = CallsFor(labels)
        /\ \A c \in Clients : \A i \in 1..(Len(trace.seen[c]) - 1) :
              /\ trace.seen[c][i + 1].completed = trace.seen[c][i].completed + 1
              /\ trace.seen[c][i + 1].duration = trace.seen[c][i].duration + 1

\* a client has scraped /metrics twice, with two user agents that share their
\* first token, and both requests are counted
C26_Witness ==
    /\ manager.created
    /\ Len(trace.seen["restify"]) = 2
    /\ \E i, j \in 1..Len(trace.completed) :
          /\ trace.completed[i].route = "getmetrics"
          /\ trace.completed[j].route = "getmetrics"
          /\ trace.completed[i].client = "restify"
          /\ trace.completed[j].client = "restify"
          /\ trace.completed[i].userAgent # trace.completed[j].userAgent

\* C27: createRestifyMetrics creates http_request_duration_seconds with the
\* buckets and the labels given in config.metricOpts when they are given;
\* without metricOpts the histogram has the default buckets and no label of
\* its own (no buckets_version); the caller's metricOpts is left unchanged.
C27_Original ==
    manager.created =>
        /\ OptGiven(trace.config, "http_request_duration_seconds", "buckets") =>
              manager.histogram.buckets = trace.config.http_request_duration_seconds.buckets
        /\ OptGiven(trace.config, "http_request_duration_seconds", "labels") =>
              \A k \in DOMAIN trace.config.http_request_duration_seconds.labels :
                 /\ k \in DOMAIN manager.histogram.labels
                 /\ manager.histogram.labels[k] =
                       trace.config.http_request_duration_seconds.labels[k]
        /\ trace.config = Undefined =>
              /\ manager.histogram.buckets = DefaultBuckets
              /\ DOMAIN manager.histogram.labels = {}
        /\ manager.metricOpts = trace.config


\* the metric types an argument names, '*' standing for all of them
RECURSIVE NamedTypes(_)
NamedTypes(metricsTypes) ==
    IF metricsTypes = <<>> THEN <<>>
    ELSE (IF Head(metricsTypes) = "*" THEN <<"node-core", "node-gc", "restify">>
          ELSE <<Head(metricsTypes)>>) \o NamedTypes(Tail(metricsTypes))

\* every name is known and no type is named more than once
WellFormedTypes(named) ==
    /\ \A i \in 1..Len(named) : named[i] \in {"node-core", "node-gc", "restify"}
    /\ \A i, j \in 1..Len(named) : named[i] = named[j] => i = j

\* the number of calls of the create function
CallsOf(fn) == Cardinality({i \in 1..Len(manager.created) : manager.created[i] = fn})

\* C30: createMultipleMetrics(metricsTypes) calls the create function of
\* every type named in the array exactly once ('*' naming all three) and no
\* other, and fails, creating nothing, when a name is unknown or a type is
\* named more than once.
C30_Original ==
    trace.outcome # "none" =>
        \E named \in {NamedTypes(trace.metricsTypes)} :
            IF WellFormedTypes(named)
            THEN /\ trace.outcome = "returned"
                 /\ \A t \in {"node-core", "node-gc", "restify"} :
                       CallsOf(TypeFn(t)) = IF t \in Range(named) THEN 1 ELSE 0
            ELSE /\ trace.outcome = "threw"
                 /\ manager.created = <<>>

====
